---------------------------- MODULE Spec2Model ----------------------------
(***************************************************************************)
(* A model of wanish's article extractor (src/wanish/cleaner.py):          *)
(* ArticleExtractor.get_clean_html and the functions it calls, over a      *)
(* mutable, parent-linked element tree.                                    *)
(*                                                                         *)
(* Representation.                                                         *)
(*  - Tag names, attribute names and values, and serialized tags are       *)
(*    strings; the regular expressions of the source are evaluated on them *)
(*    character by character.                                              *)
(*  - Text (an element's .text and .tail) is a sequence of runs            *)
(*    [c |-> character, n |-> repetitions]: the text "xx, y" is            *)
(*    <<R("x",2), R(",",1), R(" ",1), R("x",1)>>.  The alphabet of text is *)
(*    letters "x", ",", ".", "!", " " and "\n"; it has no markup           *)
(*    character, so serialization escapes nothing.                         *)
(*  - Scores are Python floats in the source; here they are exact          *)
(*    rationals [n |-> numerator, d |-> denominator > 0] in lowest terms.  *)
(*  - The tree is a sequence of element records addressed by index (the    *)
(*    element's identity).  A dropped element stays in the sequence,       *)
(*    detached (par = 0), as a Python reference to it stays valid.         *)
(***************************************************************************)
EXTENDS Integers, Sequences, FiniteSets, TLC

---------------------------------------------------------------------------
(* Strings *)

Ch(s, i) == SubSeq(s, i, i)

Min2(a, b) == IF a <= b THEN a ELSE b
Max2(a, b) == IF a >= b THEN a ELSE b

UpperLetters == "ABCDEFGHIJKLMNOPQRSTUVWXYZ"
LowerLetters == "abcdefghijklmnopqrstuvwxyz"
Digits == "0123456789"

InStr(c, s) == \E i \in 1..Len(s) : Ch(s, i) = c

LowerChar(c) ==
  IF InStr(c, UpperLetters)
  THEN Ch(LowerLetters, CHOOSE i \in 1..26 : Ch(UpperLetters, i) = c)
  ELSE c

RECURSIVE Lower(_)
Lower(s) == IF s = "" THEN "" ELSE LowerChar(Ch(s, 1)) \o Lower(SubSeq(s, 2, Len(s)))

\* \w of the re module, on the ASCII characters the model uses
IsWordChar(c) == InStr(c, UpperLetters) \/ InStr(c, LowerLetters) \/ InStr(c, Digits) \/ c = "_"

\* pattern.match(s) for a pattern that is an alternation of literal keywords:
\* some keyword is a prefix of s
MatchKeys(keys, s) == \E k \in keys : Len(k) <= Len(s) /\ SubSeq(s, 1, Len(k)) = k

\* pattern.search(s) for such a pattern: some keyword occurs somewhere in s
SearchKeys(keys, s) ==
  \E k \in keys : \E i \in 1..(Len(s) - Len(k) + 1) : SubSeq(s, i, i + Len(k) - 1) = k

---------------------------------------------------------------------------
(* REGEXES (all compiled with re.I: matched against the lowered string) *)

unlikelyCandidatesRe ==
  {"combx", "comment", "community", "disqus", "extra", "foot", "header", "menu",
   "remark", "rss", "shoutbox", "sidebar", "sponsor", "ad-break", "agegate",
   "pagination", "pager", "popup", "tweet", "twitter", "adblock"}

okMaybeItsACandidateRe == {"and", "article", "body", "column", "main", "shadow"}

positiveRe ==
  {"article", "body", "content", "entry", "hentry", "main", "page", "pagination",
   "post", "text", "blog", "story"}

negativeRe ==
  {"combx", "comment", "com-", "contact", "foot", "footer", "footnote", "masthead",
   "media", "meta", "outbrain", "promo", "related", "scroll", "shoutbox", "sidebar",
   "sponsor", "shopping", "tags", "tool", "widget", "adblock"}

\* the tag names of '<(a|blockquote|dl|div|img|ol|p|pre|table|ul)'
divToPElementsRe == {"a", "blockquote", "dl", "div", "img", "ol", "p", "pre", "table", "ul"}

TEXT_LENGTH_THRESHOLD == 25
RETRY_LENGTH == 250

---------------------------------------------------------------------------
(* Text as runs *)

R(c, n) == [c |-> c, n |-> n]

IsSpace(c) == c \in {" ", "\n"}

RECURSIVE TLen(_)
TLen(t) == IF t = <<>> THEN 0 ELSE t[1].n + TLen(Tail(t))

\* str.count(c)
RECURSIVE CountChar(_, _)
CountChar(t, c) ==
  IF t = <<>> THEN 0
  ELSE (IF t[1].c = c THEN t[1].n ELSE 0) + CountChar(Tail(t), c)

\* the index of the last run of the whitespace stretch that starts at run i
RECURSIVE StretchEnd(_, _)
StretchEnd(t, i) ==
  IF i < Len(t) /\ IsSpace(t[i + 1].c) THEN StretchEnd(t, i + 1) ELSE i

\* re.sub('\s*\n\s*', '\n', text): a maximal whitespace stretch that holds a
\* newline becomes one newline
RECURSIVE SubNewlines(_, _)
SubNewlines(t, i) ==
  IF i > Len(t) THEN <<>>
  ELSE IF IsSpace(t[i].c)
       THEN LET e == StretchEnd(t, i)
            IN  IF \E k \in i..e : t[k].c = "\n"
                THEN <<R("\n", 1)>> \o SubNewlines(t, e + 1)
                ELSE SubSeq(t, i, e) \o SubNewlines(t, e + 1)
       ELSE <<t[i]>> \o SubNewlines(t, i + 1)

\* the index of the last run of the stretch of blanks that starts at run i
RECURSIVE BlankEnd(_, _)
BlankEnd(t, i) ==
  IF i < Len(t) /\ t[i + 1].c = " " THEN BlankEnd(t, i + 1) ELSE i

\* re.sub('[ \t]{2,}', ' ', text): two or more blanks become one
RECURSIVE SubBlanks(_, _)
SubBlanks(t, i) ==
  IF i > Len(t) THEN <<>>
  ELSE IF t[i].c = " "
       THEN LET e == BlankEnd(t, i)
            IN  IF TLen(SubSeq(t, i, e)) >= 2
                THEN <<R(" ", 1)>> \o SubBlanks(t, e + 1)
                ELSE SubSeq(t, i, e) \o SubBlanks(t, e + 1)
       ELSE <<t[i]>> \o SubBlanks(t, i + 1)

\* str.strip()
Strip(t) ==
  LET ink == {i \in 1..Len(t) : ~IsSpace(t[i].c) /\ t[i].n > 0}
  IN  IF ink = {} THEN <<>>
      ELSE SubSeq(t, CHOOSE i \in ink : \A j \in ink : i <= j,
                     CHOOSE i \in ink : \A j \in ink : i >= j)

\* runs of length 0 hold no character
NonEmptyRuns(t) == SelectSeq(t, LAMBDA r : r.n > 0)

clean(text) == Strip(SubBlanks(SubNewlines(NonEmptyRuns(text), 1), 1))

\* str.strip() is non-empty
HasInk(t) == \E i \in 1..Len(t) : ~IsSpace(t[i].c) /\ t[i].n > 0

\* a sentence end that also takes an exclamation mark or a question mark
SentenceEndAnyMark(s) ==
  LET t == NonEmptyRuns(s)
  IN  \E i \in 1..Len(t) :
        /\ t[i].c \in {".", "!", "?"}
        /\ \/ i = Len(t)
           \/ t[i + 1].c = " "
           \/ i + 1 = Len(t) /\ t[i + 1].c = "\n" /\ t[i + 1].n = 1

\* re.search('\.( |$)', s): a period followed by a blank or by the end of the
\* string ($ also matches before a newline that ends the string)
SentenceEnd(s) ==
  LET t == NonEmptyRuns(s)
  IN  \E i \in 1..Len(t) :
        /\ t[i].c = "."
        /\ \/ i = Len(t)
           \/ t[i + 1].c = " "
           \/ i + 1 = Len(t) /\ t[i + 1].c = "\n" /\ t[i + 1].n = 1

---------------------------------------------------------------------------
(* Rationals, for the float scores *)

Abs(x) == IF x < 0 THEN -x ELSE x

RECURSIVE Gcd(_, _)
Gcd(a, b) == IF b = 0 THEN a ELSE Gcd(b, a % b)

Rat(n, d) ==
  LET g == Gcd(Abs(n), Abs(d))
      s == IF d < 0 THEN -1 ELSE 1
  IN  [n |-> (s * n) \div g, d |-> (s * d) \div g]

RInt(k) == [n |-> k, d |-> 1]

\* sums and products cancel common factors first, comparisons go by integer
\* parts (as in Euclid's algorithm): intermediate values stay small
RAdd(a, b) ==
  LET g == Gcd(a.d, b.d)
  IN  Rat(a.n * (b.d \div g) + b.n * (a.d \div g), (a.d \div g) * b.d)
RNeg(a) == [n |-> -a.n, d |-> a.d]
RSub(a, b) == RAdd(a, RNeg(b))
RMul(a, b) ==
  LET g1 == Gcd(Abs(a.n), b.d)
      g2 == Gcd(Abs(b.n), a.d)
  IN  Rat((a.n \div g1) * (b.n \div g2), (a.d \div g2) * (b.d \div g1))

\* an / ad < bn / bd, for ad > 0 and bd > 0
RECURSIVE FracLt(_, _, _, _)
FracLt(an, ad, bn, bd) ==
  IF an \div ad # bn \div bd THEN an \div ad < bn \div bd
  ELSE IF an % ad = 0 THEN bn % bd > 0
  ELSE IF bn % bd = 0 THEN FALSE
  ELSE FracLt(bd, bn % bd, ad, an % ad)

RLt(a, b) == FracLt(a.n, a.d, b.n, b.d)
RLe(a, b) == ~RLt(b, a)
RMin(a, b) == IF RLe(a, b) THEN a ELSE b
RMax(a, b) == IF RLe(a, b) THEN b ELSE a

---------------------------------------------------------------------------
(* The element tree *)

\* an element: tag, attributes in document order, .text, .tail, children,
\* parent (0: none)
Elem(tag, attrs, text, tail, kids) ==
  [tag |-> tag, attrs |-> attrs, text |-> text, tail |-> tail, kids |-> kids, par |-> 0]

At(n, v) == [n |-> n, v |-> v]

\* elem.get(name, default)
Get(el, name, default) ==
  IF \E i \in 1..Len(el.attrs) : el.attrs[i].n = name
  THEN el.attrs[CHOOSE i \in 1..Len(el.attrs) : el.attrs[i].n = name].v
  ELSE default

HasAttr(el, name) == \E i \in 1..Len(el.attrs) : el.attrs[i].n = name

\* elem.set(name, value)
SetAttr(el, name, value) ==
  IF HasAttr(el, name)
  THEN [el EXCEPT !.attrs =
          [i \in 1..Len(el.attrs) |->
             IF el.attrs[i].n = name THEN At(name, value) ELSE el.attrs[i]]]
  ELSE [el EXCEPT !.attrs = Append(el.attrs, At(name, value))]

IndexOf(seq, x) == CHOOSE i \in 1..Len(seq) : seq[i] = x

RemoveAt(seq, i) == SubSeq(seq, 1, i - 1) \o SubSeq(seq, i + 1, Len(seq))

InsertAt(seq, i, x) == SubSeq(seq, 1, i - 1) \o <<x>> \o SubSeq(seq, i, Len(seq))

\* the descendants of e in document order (e excluded)
RECURSIVE Desc(_, _)
RECURSIVE DescSeq(_, _)
Desc(T, e) == DescSeq(T, T[e].kids)
DescSeq(T, ks) ==
  IF ks = <<>> THEN <<>>
  ELSE <<ks[1]>> \o Desc(T, ks[1]) \o DescSeq(T, Tail(ks))

\* elem.iter(): e and its descendants in document order
Iter(T, e) == <<e>> \o Desc(T, e)

InSeq(x, seq) == \E i \in 1..Len(seq) : seq[i] = x

\* node.findall('.//tag'): a list, built when findall is called
FindAll(T, e, tag) == SelectSeq(Desc(T, e), LAMBDA k : T[k].tag = tag)

\* node.find('tag'): the first child with that tag, 0 for None
FindChild(T, e, tag) ==
  LET hits == SelectSeq(T[e].kids, LAMBDA k : T[k].tag = tag)
  IN  IF hits = <<>> THEN 0 ELSE hits[1]

RECURSIVE RootOf(_, _)
RootOf(T, e) == IF T[e].par = 0 THEN e ELSE RootOf(T, T[e].par)

\* elem.xpath("//tag"): an absolute path, evaluated from the root of the
\* document e is in, whatever e is
XPathTag(T, e, tag) ==
  SelectSeq(Iter(T, RootOf(T, e)), LAMBDA k : T[k].tag = tag)

\* elem.xpath("//*[@itemprop='articleBody']")
XPathArticleBody(T, e) ==
  SelectSeq(Iter(T, RootOf(T, e)), LAMBDA k : Get(T[k], "itemprop", "") = "articleBody")

\* elem.text_content(): the text of e and of its descendants, tails of the
\* descendants included, in document order
RECURSIVE TextContent(_, _)
RECURSIVE TextContentSeq(_, _)
TextContent(T, e) == T[e].text \o TextContentSeq(T, T[e].kids)
TextContentSeq(T, ks) ==
  IF ks = <<>> THEN <<>>
  ELSE TextContent(T, ks[1]) \o T[ks[1]].tail \o TextContentSeq(T, Tail(ks))

\* lxml.html's drop_tree() of an element that has a parent: the tail goes to
\* the previous sibling's tail or to the parent's text, and the element with
\* its subtree leaves the parent (parent.remove keeps the tail on the element)
DropTree(T, e) ==
  LET p == T[e].par
      i == IndexOf(T[p].kids, e)
      tl == T[e].tail
      T1 == IF TLen(tl) = 0 THEN T
            ELSE IF i = 1 THEN [T EXCEPT ![p].text = @ \o tl]
            ELSE [T EXCEPT ![T[p].kids[i - 1]].tail = @ \o tl]
  IN  [T1 EXCEPT ![p].kids = RemoveAt(@, i), ![e].par = 0]

\* e taken out of its parent's children, with its tail (as append and insert
\* do before they link the element at its new place)
Unlink(T, e) ==
  IF T[e].par = 0 THEN T
  ELSE [T EXCEPT ![T[e].par].kids = RemoveAt(@, IndexOf(@, e)), ![e].par = 0]

\* an append that leaves e among the children of its old parent as well
AppendShared(T, parent, e) ==
  [T EXCEPT ![parent].kids = Append(@, e), ![e].par = parent]

\* an append that puts e in front of parent's children
AppendFront(T, parent, e) ==
  LET T1 == Unlink(T, e)
  IN  [T1 EXCEPT ![parent].kids = <<e>> \o @, ![e].par = parent]

\* parent.append(e): e moves, with its tail, to the end of parent's children
AppendChild(T, parent, e) ==
  LET T1 == Unlink(T, e)
  IN  [T1 EXCEPT ![parent].kids = Append(@, e), ![e].par = parent]

\* parent.insert(index, e), index counted from 0
InsertChild(T, parent, index, e) ==
  LET T1 == Unlink(T, e)
  IN  [T1 EXCEPT ![parent].kids = InsertAt(@, index + 1, e), ![e].par = parent]

\* fragment_fromstring('<tag/>'): a new element; its identity is the next
\* free index.  (lxml leaves it under an artificial html/body, which the
\* extractor never reads and which it leaves when it is inserted.)
NewElem(T, tag) == Append(T, Elem(tag, <<>>, <<>>, <<>>, <<>>))

---------------------------------------------------------------------------
(* Serialization: etree.tostring(elem).decode() *)

\* the markup is a sequence of pieces, each a tag (s) or a text (t)
TagPiece(s) == [s |-> s, t |-> <<>>]
TextPiece(t) == [s |-> "", t |-> t]

RECURSIVE AttrString(_)
AttrString(attrs) ==
  IF attrs = <<>> THEN ""
  ELSE " " \o attrs[1].n \o "=\"" \o attrs[1].v \o "\"" \o AttrString(Tail(attrs))

TextPieces(t) == IF TLen(t) = 0 THEN <<>> ELSE <<TextPiece(t)>>

\* the element with its subtree, then its tail (with_tail defaults to True);
\* an element without content is written <tag/>
RECURSIVE Serialize(_, _)
RECURSIVE SerializeSeq(_, _)
Serialize(T, e) ==
  LET el == T[e]
      head == "<" \o el.tag \o AttrString(el.attrs)
  IN  (IF el.kids = <<>> /\ TLen(el.text) = 0
       THEN <<TagPiece(head \o "/>")>>
       ELSE <<TagPiece(head \o ">")>> \o TextPieces(el.text)
            \o SerializeSeq(T, el.kids) \o <<TagPiece("</" \o el.tag \o ">")>>)
      \o TextPieces(el.tail)
SerializeSeq(T, ks) ==
  IF ks = <<>> THEN <<>> ELSE Serialize(T, ks[1]) \o SerializeSeq(T, Tail(ks))

\* len() of the markup string
RECURSIVE MarkupLen(_)
MarkupLen(m) ==
  IF m = <<>> THEN 0 ELSE Len(m[1].s) + TLen(m[1].t) + MarkupLen(Tail(m))

---------------------------------------------------------------------------
(* Preprocessor *)

\* what a step inside the try block hands to the except clause: no exception,
\* or the exception with the text str(e) gives
NoExc == [raised |-> FALSE, type |-> "", msg |-> ""]
Exc(type, msg) == [raised |-> TRUE, type |-> type, msg |-> msg]

\* drop_tree() starts with "assert parent is not None"
DropRootError == Exc("AssertionError", "")

\* drop_tree() of every element of a list, in order
RECURSIVE DropAll(_, _)
DropAll(T, es) == IF es = <<>> THEN T ELSE DropAll(DropTree(T, es[1]), Tail(es))

\* the condition of remove_unlikely_candidates on one element
IsUnlikely(el) ==
  LET s == Get(el, "class", "") \o " " \o Get(el, "id", "")
  IN  /\ ~(Len(s) < 2)
      /\ SearchKeys(unlikelyCandidatesRe, Lower(s))
      /\ ~SearchKeys(okMaybeItsACandidateRe, Lower(s))
      /\ el.tag \notin {"html", "body"}

\* The element lxml's depth-first iterator yields after c, with top the
\* element iter() was called on: the first child; else, unless c is top, the
\* next sibling, or the next sibling of the nearest ancestor below top that
\* has one.  0: the iteration ends.
RECURSIVE NextUp(_, _, _)
NextUp(T, top, c) ==
  LET p == T[c].par
  IN  IF p # 0 /\ IndexOf(T[p].kids, c) < Len(T[p].kids)
      THEN T[p].kids[IndexOf(T[p].kids, c) + 1]
      ELSE IF p = 0 \/ p = top THEN 0
      ELSE NextUp(T, top, p)

NextNode(T, top, c) ==
  IF T[c].kids # <<>> THEN T[c].kids[1]
  ELSE IF c = top THEN 0
  ELSE NextUp(T, top, c)

\* The tree is modified while elem.iter() runs over it, which lxml documents
\* as undefined.  Two outcomes:
\*  "live": the iterator as lxml implements it.  It holds the element after
\*          the one it has yielded; once an element with children is dropped
\*          the walk goes on inside the detached subtree and ends with it.
\*  "list": every element that was in the subtree when the loop started is
\*          visited (an iterator that is not disturbed by the removal).
IterOutcomes == {"live", "list"}

\* the body of the loop of remove_unlikely_candidates on one element
RemoveIfUnlikely(r, e) ==
  IF r.exc.raised \/ ~IsUnlikely(r.T[e]) THEN r
  ELSE IF r.T[e].par = 0 THEN [r EXCEPT !.exc = DropRootError]
  ELSE [r EXCEPT !.T = DropTree(r.T, e)]

RECURSIVE RemoveUnlikelyList(_, _)
RemoveUnlikelyList(r, es) ==
  IF es = <<>> \/ r.exc.raised THEN r
  ELSE RemoveUnlikelyList(RemoveIfUnlikely(r, es[1]), Tail(es))

RECURSIVE RemoveUnlikelyLive(_, _, _)
RemoveUnlikelyLive(r, top, cur) ==
  LET nxt == NextNode(r.T, top, cur)
      r1 == RemoveIfUnlikely(r, cur)
  IN  IF r1.exc.raised \/ nxt = 0 THEN r1
      ELSE RemoveUnlikelyLive(r1, top, nxt)

\* remove_unlikely_candidates: [T, exc]
remove_unlikely_candidates(T, html, outcome) ==
  LET r0 == [T |-> T, exc |-> NoExc]
  IN  IF outcome = "live" THEN RemoveUnlikelyLive(r0, html, html)
      ELSE RemoveUnlikelyList(r0, Iter(T, html))

\* REGEXES['divToPElementsRe'].search(tostring(elem).decode())
DivToPSearch(T, e) ==
  LET m == Serialize(T, e)
  IN  \E i \in 1..Len(m) :
        SearchKeys({"<" \o k : k \in divToPElementsRe}, Lower(m[i].s))

\* first loop of transform_misused_divs_into_paragraphs
RECURSIVE RenameDivs(_, _)
RenameDivs(T, es) ==
  IF es = <<>> THEN T
  ELSE RenameDivs(IF ~DivToPSearch(T, es[1]) THEN [T EXCEPT ![es[1]].tag = "p"] ELSE T,
                  Tail(es))

\* an inner loop body that wraps the tail text and leaves it on the child
WrapTailKept(T, elem, pos, child) ==
  LET T1 == IF HasInk(T[child].tail)
            THEN LET Tn == NewElem(T, "p")
                     p == Len(Tn)
                     Tp == [Tn EXCEPT ![p].text = T[child].tail]
                 IN  InsertChild(Tp, elem, pos + 1, p)
            ELSE T
  IN  IF T1[child].tag = "br" THEN DropTree(T1, child) ELSE T1

\* the body of the inner loop, for the child that was at position pos
\* (from 0) of elem
WrapTail(T, elem, pos, child) ==
  LET T1 == IF HasInk(T[child].tail)
            THEN LET Tn == NewElem(T, "p")
                     p == Len(Tn)
                     Tp == [Tn EXCEPT ![p].text = T[child].tail, ![child].tail = <<>>]
                 IN  InsertChild(Tp, elem, pos + 1, p)
            ELSE T
  IN  IF T1[child].tag = "br" THEN DropTree(T1, child) ELSE T1

\* for pos, child in reversed(list(enumerate(elem))), from position pos down
RECURSIVE WrapTails(_, _, _, _)
WrapTails(T, elem, kids, pos) ==
  IF pos < 0 THEN T
  ELSE WrapTails(WrapTail(T, elem, pos, kids[pos + 1]), elem, kids, pos - 1)

\* the body of the second loop on one div
NormalizeDiv(T, elem) ==
  LET T1 == IF HasInk(T[elem].text)
            THEN LET Tn == NewElem(T, "p")
                     p == Len(Tn)
                     Tp == [Tn EXCEPT ![p].text = T[elem].text, ![elem].text = <<>>]
                 IN  InsertChild(Tp, elem, 0, p)
            ELSE T
  IN  WrapTails(T1, elem, T1[elem].kids, Len(T1[elem].kids) - 1)

RECURSIVE NormalizeDivs(_, _)
NormalizeDivs(T, es) ==
  IF es = <<>> THEN T ELSE NormalizeDivs(NormalizeDiv(T, es[1]), Tail(es))

transform_misused_divs_into_paragraphs(T, html) ==
  LET T1 == RenameDivs(T, FindAll(T, html, "div"))
  IN  NormalizeDivs(T1, FindAll(T1, html, "div"))

---------------------------------------------------------------------------
(* Scorer *)

\* len(clean(i.text_content() or ""))
text_length(T, e) == TLen(clean(TextContent(T, e)))

\* a check_regexes that uses search instead of match
check_regexes_search(text) ==
  (IF SearchKeys(negativeRe, Lower(text)) THEN -25 ELSE 0)
  + (IF SearchKeys(positiveRe, Lower(text)) THEN 25 ELSE 0)

\* check_regexes(text)
check_regexes(text) ==
  (IF MatchKeys(negativeRe, Lower(text)) THEN -25 ELSE 0)
  + (IF MatchKeys(positiveRe, Lower(text)) THEN 25 ELSE 0)

\* check_keywords(text); kw holds the keywords of the two compiled custom
\* patterns (lowered by compile_pattern, matched case-sensitively), the
\* empty set for a pattern that is None
check_keywords(kw, text) ==
  (IF kw.pos # {} /\ MatchKeys(kw.pos, text) THEN 25 ELSE 0)
  + (IF kw.neg # {} /\ MatchKeys(kw.neg, text) THEN -25 ELSE 0)

FeatureWeight(kw, feature) ==
  IF feature = "" THEN 0 ELSE check_regexes(feature) + check_keywords(kw, feature)

class_weight(kw, el) ==
  FeatureWeight(kw, Get(el, "class", ""))
  + FeatureWeight(kw, Get(el, "id", ""))
  + check_keywords(kw, "tag-" \o el.tag)

\* the content_score score_node gives a new candidate
score_node(kw, el) ==
  LET name == Lower(el.tag)
  IN  class_weight(kw, el)
      + (IF name = "div" THEN 5
         ELSE IF name \in {"pre", "td", "blockquote"} THEN 3
         ELSE IF name \in {"address", "ol", "ul", "dl", "dd", "dt", "li", "form"} THEN -3
         ELSE IF name \in {"h1", "h2", "h3", "h4", "h5", "h6", "th"} THEN -5
         ELSE 0)

RECURSIVE SumTextLength(_, _)
SumTextLength(T, es) ==
  IF es = <<>> THEN 0 ELSE text_length(T, es[1]) + SumTextLength(T, Tail(es))

\* get_link_density(elem), a rational
get_link_density(T, e) ==
  Rat(SumTextLength(T, FindAll(T, e, "a")), Max2(text_length(T, e), 1))

\* The candidates are a sequence of records [elem, content_score] in the
\* order of insertion into the dict (the order of the list "ordered").
CandIndex(cands, e) ==
  IF \E i \in 1..Len(cands) : cands[i].elem = e
  THEN CHOOSE i \in 1..Len(cands) : cands[i].elem = e
  ELSE 0

IsCandidate(cands, e) == CandIndex(cands, e) # 0

\* candidates[e] = score_node(e), when e is not in candidates
EnsureCandidate(cands, T, kw, e) ==
  IF IsCandidate(cands, e) THEN cands
  ELSE Append(cands, [elem |-> e, content_score |-> RInt(score_node(kw, T[e]))])

AddScore(cands, e, amount) ==
  [cands EXCEPT ![CandIndex(cands, e)].content_score = RAdd(@, amount)]

\* a content_score that counts the commas, not the pieces between them
ParagraphScoreCommas(inner_text) ==
  RAdd(RInt(1 + CountChar(inner_text, ",")),
       RMin(Rat(TLen(inner_text), 100), RInt(3)))

\* content_score of one paragraph whose cleaned text is inner_text
ParagraphScore(inner_text) ==
  RAdd(RInt(1 + (CountChar(inner_text, ",") + 1)),
       RMin(Rat(TLen(inner_text), 100), RInt(3)))

\* the body of the first loop of score_paragraphs on one p, pre or td
ScoreParagraph(cands, T, kw, elem) ==
  LET parent_node == T[elem].par
      grand_parent_node == IF parent_node = 0 THEN 0 ELSE T[parent_node].par
      inner_text == clean(TextContent(T, elem))
      c1 == EnsureCandidate(cands, T, kw, parent_node)
      c2 == IF grand_parent_node # 0 THEN EnsureCandidate(c1, T, kw, grand_parent_node) ELSE c1
      content_score == ParagraphScore(inner_text)
      c3 == AddScore(c2, parent_node, content_score)
  IN  IF parent_node = 0 THEN cands
      ELSE IF TLen(inner_text) < TEXT_LENGTH_THRESHOLD THEN cands
      ELSE IF grand_parent_node # 0
           THEN AddScore(c3, grand_parent_node, RMul(content_score, Rat(1, 2)))
           ELSE c3

RECURSIVE ScoreParagraphs(_, _, _, _)
ScoreParagraphs(cands, T, kw, es) ==
  IF es = <<>> THEN cands
  ELSE ScoreParagraphs(ScoreParagraph(cands, T, kw, es[1]), T, kw, Tail(es))

\* the two multiplications of the second loop: by (1 - ld), then by
\* (1 + len(elem.text_content()) / 500), the length of the raw text
ScaleScore(score, ld, raw_len) ==
  RMul(RMul(score, RSub(RInt(1), ld)), RAdd(RInt(1), Rat(raw_len, 500)))

\* a scaling by the length of the cleaned text
ScaleCandidateCleaned(T, c) ==
  [c EXCEPT !.content_score =
     ScaleScore(@, get_link_density(T, c.elem), text_length(T, c.elem))]

ScaleCandidate(T, c) ==
  [c EXCEPT !.content_score =
     ScaleScore(@, get_link_density(T, c.elem), TLen(TextContent(T, c.elem)))]

\* a tags() that yields the elements of the three names in document order
TagsInDocumentOrder(T, e, t1, t2, t3) ==
  SelectSeq(Desc(T, e), LAMBDA k : T[k].tag \in {t1, t2, t3})

\* self.tags(node, t1, t2, ...) when the loop body changes no element
Tags3(T, e, t1, t2, t3) == FindAll(T, e, t1) \o FindAll(T, e, t2) \o FindAll(T, e, t3)

score_paragraphs(T, html, kw) ==
  LET scored == ScoreParagraphs(<<>>, T, kw, Tags3(T, html, "p", "pre", "td"))
  IN  [i \in 1..Len(scored) |-> ScaleCandidate(T, scored[i])]

\* find_candidates(ruthless): [T, candidates, exc]
find_candidates(T, html, ruthless, kw, outcome) ==
  LET T1 == DropAll(T, FindAll(T, html, "script"))
      T2 == DropAll(T1, FindAll(T1, html, "style"))
      bodies == FindAll(T2, html, "body")
      T3 == SubSeq([i \in 1..Len(T2) |->
                      IF InSeq(i, bodies) THEN SetAttr(T2[i], "id", "readabilityBody")
                      ELSE T2[i]], 1, Len(T2))
      r == IF ruthless THEN remove_unlikely_candidates(T3, html, outcome)
           ELSE [T |-> T3, exc |-> NoExc]
      T4 == transform_misused_divs_into_paragraphs(r.T, html)
  IN  IF r.exc.raised THEN [T |-> r.T, candidates |-> <<>>, exc |-> r.exc]
      ELSE [T |-> T4, candidates |-> score_paragraphs(T4, html, kw), exc |-> NoExc]

\* a select_best_candidate that keeps the last of the candidates of maximal
\* score
select_best_candidate_last(cands) ==
  IF cands = <<>> THEN 0
  ELSE CHOOSE i \in 1..Len(cands) :
         /\ \A j \in 1..Len(cands) : RLe(cands[j].content_score, cands[i].content_score)
         /\ \A j \in (i + 1)..Len(cands) : RLt(cands[j].content_score, cands[i].content_score)

\* one insertion of the stable sort by content_score, descending: c goes
\* behind every element whose score is not smaller
RECURSIVE InsertByScore(_, _)
InsertByScore(sorted, c) ==
  IF sorted = <<>> THEN <<c>>
  ELSE IF RLt(sorted[1].content_score, c.content_score) THEN <<c>> \o sorted
  ELSE <<sorted[1]>> \o InsertByScore(Tail(sorted), c)

\* sorted(candidates.values(), key=lambda x: x['content_score'], reverse=True):
\* sorted() is stable, and with reverse=True equal elements keep their order
RECURSIVE sorted_candidates(_)
sorted_candidates(cands) ==
  IF cands = <<>> THEN <<>>
  ELSE InsertByScore(sorted_candidates(SubSeq(cands, 1, Len(cands) - 1)), cands[Len(cands)])

\* select_best_candidate: the index in candidates of sorted_candidates[0];
\* 0 for None
select_best_candidate(cands) ==
  LET s == sorted_candidates(cands)
  IN  IF Len(s) = 0 THEN 0 ELSE CandIndex(cands, s[1].elem)

---------------------------------------------------------------------------
(* Selector / Assembler *)

\* initial_output(html_partial): [T, output, container].  A fragment root
\* <div/>, or the document html > body > div that document_fromstring
\* builds around <div/>; container is where get_article appends.
initial_output(T, html_partial) ==
  IF html_partial
  THEN LET T1 == NewElem(T, "div")
       IN  [T |-> T1, output |-> Len(T1), container |-> Len(T1)]
  ELSE LET T1 == NewElem(T, "html")
           h == Len(T1)
           T2 == AppendChild(NewElem(T1, "body"), h, h + 1)
           T3 == AppendChild(NewElem(T2, "div"), h + 1, h + 2)
       IN  [T |-> T3, output |-> h, container |-> h + 2]

\* is_appendable(sibling, candidates, sibling_score_threshold)
is_appendable(T, sibling, cands, sibling_score_threshold) ==
  \/ /\ IsCandidate(cands, sibling)
     /\ RLe(sibling_score_threshold, cands[CandIndex(cands, sibling)].content_score)
  \/ /\ T[sibling].tag = "p"
     /\ LET link_density == get_link_density(T, sibling)
            node_content == T[sibling].text
            node_length == TLen(node_content)
        IN  \/ node_length > 80 /\ RLt(link_density, Rat(25, 100))
            \/ node_length <= 80 /\ link_density = RInt(0) /\ SentenceEnd(node_content)

\* a loop over the parent itself instead of the list getchildren() gives:
\* the iteration ends once the sibling it stands on has been moved away
RECURSIVE AppendSiblingsLive(_, _, _, _, _, _)
AppendSiblingsLive(T, sibs, best_elem, cands, threshold, container) ==
  IF sibs = <<>> THEN T
  ELSE IF sibs[1] = best_elem \/ is_appendable(T, sibs[1], cands, threshold)
  THEN AppendChild(T, container, sibs[1])
  ELSE AppendSiblingsLive(T, Tail(sibs), best_elem, cands, threshold, container)

\* the loop of get_article over the children the parent had when it started
RECURSIVE AppendSiblings(_, _, _, _, _, _)
AppendSiblings(T, sibs, best_elem, cands, threshold, container) ==
  IF sibs = <<>> THEN T
  ELSE LET sibling == sibs[1]
           append == sibling = best_elem \/ is_appendable(T, sibling, cands, threshold)
       IN  AppendSiblings(IF append THEN AppendChild(T, container, sibling) ELSE T,
                          Tail(sibs), best_elem, cands, threshold, container)

\* best_elem.getparent() is None: None.getchildren()
NoParentError == Exc("AttributeError", "'NoneType' object has no attribute 'getchildren'")

\* a get_article that answers with the best element alone when it has no
\* parent
get_article_alone(T, cands, best, html_partial) ==
  LET sibling_score_threshold == RMax(RInt(10), RMul(cands[best].content_score, Rat(2, 10)))
      out == initial_output(T, html_partial)
      best_elem == cands[best].elem
      parent == T[best_elem].par
  IN  IF parent = 0
      THEN [T |-> AppendChild(out.T, out.container, best_elem), article |-> out.output,
            exc |-> NoExc]
      ELSE [T |-> AppendSiblings(out.T, T[parent].kids, best_elem, cands,
                                 sibling_score_threshold, out.container),
            article |-> out.output, exc |-> NoExc]

\* get_article(candidates, best_candidate, html_partial): [T, article, exc];
\* best is the index of the best candidate
get_article(T, cands, best, html_partial) ==
  LET sibling_score_threshold == RMax(RInt(10), RMul(cands[best].content_score, Rat(2, 10)))
      out == initial_output(T, html_partial)
      best_elem == cands[best].elem
      parent == T[best_elem].par
  IN  IF parent = 0 THEN [T |-> out.T, article |-> 0, exc |-> NoParentError]
      ELSE [T |-> AppendSiblings(out.T, T[parent].kids, best_elem, cands,
                                 sibling_score_threshold, out.container),
            article |-> out.output, exc |-> NoExc]

\* a get_possible_article whose fallback is the root of the whole tree
get_possible_article_whole(T, html, cands, html_partial, ruthless) ==
  LET best_candidate == select_best_candidate(cands)
  IN  IF best_candidate # 0
      THEN LET a == get_article(T, cands, best_candidate, html_partial)
           IN  [T |-> a.T, article |-> a.article, ruthless |-> ruthless,
                should_continue |-> FALSE, exc |-> a.exc]
      ELSE IF ruthless
      THEN [T |-> T, article |-> 0, ruthless |-> FALSE, should_continue |-> TRUE,
            exc |-> NoExc]
      ELSE [T |-> T,
            article |-> IF XPathTag(T, html, "body") # <<>> THEN XPathTag(T, html, "body")[1]
                        ELSE RootOf(T, html),
            ruthless |-> ruthless, should_continue |-> FALSE, exc |-> NoExc]

\* a get_possible_article that falls back at once, whatever ruthless is
get_possible_article_no_retry(T, html, cands, html_partial, ruthless) ==
  LET best_candidate == select_best_candidate(cands)
  IN  IF best_candidate # 0
      THEN LET a == get_article(T, cands, best_candidate, html_partial)
           IN  [T |-> a.T, article |-> a.article, ruthless |-> ruthless,
                should_continue |-> FALSE, exc |-> a.exc]
      ELSE [T |-> T,
            article |-> IF FindChild(T, html, "body") # 0 THEN FindChild(T, html, "body")
                        ELSE html,
            ruthless |-> ruthless, should_continue |-> FALSE, exc |-> NoExc]

\* get_possible_article: [T, article, ruthless, should_continue, exc]
get_possible_article(T, html, cands, html_partial, ruthless) ==
  LET best_candidate == select_best_candidate(cands)
  IN  IF best_candidate # 0
      THEN LET a == get_article(T, cands, best_candidate, html_partial)
           IN  [T |-> a.T, article |-> a.article, ruthless |-> ruthless,
                should_continue |-> FALSE, exc |-> a.exc]
      ELSE IF ruthless
      THEN [T |-> T, article |-> 0, ruthless |-> FALSE, should_continue |-> TRUE,
            exc |-> NoExc]
      ELSE [T |-> T,
            article |-> IF FindChild(T, html, "body") # 0 THEN FindChild(T, html, "body")
                        ELSE html,
            ruthless |-> ruthless, should_continue |-> FALSE, exc |-> NoExc]

\* narrow_scope(html_partial): [html, html_partial].  The three lists are
\* taken from self._html before the loop; the loop has no break, so the last
\* non-empty list decides.
RECURSIVE NarrowLoop(_, _)
NarrowLoop(r, lists) ==
  IF lists = <<>> THEN r
  ELSE NarrowLoop(IF Len(lists[1]) > 0
                  THEN [html |-> lists[1][1], html_partial |-> TRUE]
                  ELSE r,
                  Tail(lists))

narrow_scope(T, html, html_partial) ==
  LET article_body == XPathArticleBody(T, html)
      articles == XPathTag(T, html, "article")
      body == XPathTag(T, html, "body")
  IN  NarrowLoop([html |-> html, html_partial |-> html_partial],
                 <<article_body, articles, body>>)

---------------------------------------------------------------------------
(* Attribute stripping: html_strip and clean_attributes *)

RECURSIVE SkipBlanks(_, _)
SkipBlanks(t, i) == IF i <= Len(t) /\ Ch(t, i) = " " THEN SkipBlanks(t, i + 1) ELSE i

\* the last position of the longest run of \w that starts at i
RECURSIVE WordEnd(_, _)
WordEnd(t, i) == IF i < Len(t) /\ IsWordChar(Ch(t, i + 1)) THEN WordEnd(t, i + 1) ELSE i

\* non_space = '[^ "\'>]+'
IsNonSpace(c) == c \notin {" ", "\"", "'", ">"}

RECURSIVE NonSpaceEnd(_, _)
NonSpaceEnd(t, i) ==
  IF i < Len(t) /\ IsNonSpace(Ch(t, i + 1)) THEN NonSpaceEnd(t, i + 1) ELSE i

\* the position of the first q after position i, 0 when there is none
QuoteEnd(t, i, q) ==
  LET ps == {k \in (i + 1)..Len(t) : Ch(t, k) = q}
  IN  IF ps = {} THEN 0 ELSE CHOOSE k \in ps : \A j \in ps : k <= j

\* the last position of the value (non_space | single_quoted | double_quoted)
\* that starts at v, 0 when none matches there
ValueEnd(t, v) ==
  IF v > Len(t) THEN 0
  ELSE IF IsNonSpace(Ch(t, v)) THEN NonSpaceEnd(t, v)
  ELSE IF Ch(t, v) \in {"'", "\""} /\ QuoteEnd(t, v, Ch(t, v)) > v + 1
       THEN QuoteEnd(t, v, Ch(t, v))
  ELSE 0

\* html_strip on one serialized tag t = "<...>", which holds no other < or >:
\*   "<" ([^>]+) " " \w+ " *" "=" " *" value ([^>]*) ">"
\* with the prefix ending at position i.  The last position of the value, 0
\* when the pattern does not match with that prefix.
StripValueEnd(t, i) ==
  LET n == Len(t)
      w == i + 2
      e == SkipBlanks(t, WordEnd(t, w) + 1)
      v == SkipBlanks(t, e + 1)
  IN  IF /\ i >= 2 /\ w <= n - 1
         /\ Ch(t, i + 1) = " "
         /\ IsWordChar(Ch(t, w))
         /\ e <= n - 1 /\ Ch(t, e) = "="
         /\ ValueEnd(t, v) # 0 /\ ValueEnd(t, v) <= n - 1
      THEN ValueEnd(t, v)
      ELSE 0

IsTag(t) == Len(t) >= 2 /\ Ch(t, 1) = "<" /\ Ch(t, Len(t)) = ">"

\* html_strip.search on one tag
StripMatches(t) == IsTag(t) /\ \E i \in 2..(Len(t) - 1) : StripValueEnd(t, i) # 0

\* html_strip.sub('<\\1\\2>', t) on one tag: the prefix is greedy, so it is
\* the longest one with which the pattern matches
StripTag(t) ==
  IF ~StripMatches(t) THEN t
  ELSE LET i == CHOOSE k \in 2..(Len(t) - 1) :
                  /\ StripValueEnd(t, k) # 0
                  /\ \A j \in (k + 1)..(Len(t) - 1) : StripValueEnd(t, j) = 0
       IN  "<" \o SubSeq(t, 2, i) \o SubSeq(t, StripValueEnd(t, i) + 1, Len(t) - 1) \o ">"

\* On serialized markup a match of html_strip lies inside one tag: the prefix
\* and the postfix hold no ">", text holds no "<", and serialization writes
\* the ">" of an attribute value as "&gt;".
html_strip_search(m) == \E i \in 1..Len(m) : StripMatches(m[i].s)

html_strip_sub(m) == [i \in 1..Len(m) |-> [m[i] EXCEPT !.s = StripTag(@)]]

\* while html_strip.search(html): html = html_strip.sub('<\\1\\2>', html)
RECURSIVE clean_attributes(_)
clean_attributes(m) ==
  IF html_strip_search(m) THEN clean_attributes(html_strip_sub(m)) ELSE m

---------------------------------------------------------------------------
(* Sanitizer *)

\* a reversed() that keeps the order
Forward(seq) == seq

\* reversed(list)

Reverse(seq) == [i \in 1..Len(seq) |-> seq[Len(seq) + 1 - i]]

\* a step 1 that looks at the class and id of the heading only
HeaderNegative(T, kw, header) == class_weight(kw, T[header]) < 0

\* the condition of step 1 on one heading
HeaderUnwanted(T, kw, header) ==
  class_weight(kw, T[header]) < 0 \/ RLt(Rat(33, 100), get_link_density(T, header))

RECURSIVE DropHeaders(_, _, _)
DropHeaders(T, kw, es) ==
  IF es = <<>> THEN T
  ELSE DropHeaders(IF HeaderUnwanted(T, kw, es[1]) THEN DropTree(T, es[1]) ELSE T,
                   kw, Tail(es))

\* for header in self.tags(node, "h1", ..., "h6"): tags is a generator, the
\* list of one tag name is built when the loop reaches that name
RECURSIVE SanitizeHeaders(_, _, _, _)
SanitizeHeaders(T, kw, node, names) ==
  IF names = <<>> THEN T
  ELSE SanitizeHeaders(DropHeaders(T, kw, FindAll(T, node, names[1])), kw, node, Tail(names))

HeaderTags == <<"h1", "h2", "h3", "h4", "h5", "h6">>

\* for elem in self.tags(node, "form", "iframe", "textarea"): elem.drop_tree()
RECURSIVE DropTags(_, _, _)
DropTags(T, node, names) ==
  IF names = <<>> THEN T
  ELSE DropTags(DropAll(T, FindAll(T, node, names[1])), node, Tail(names))

\* get_siblings_content_lengths(element, preceding, how_many=1): the text
\* length of the nearest sibling on that side whose text length is not 0
get_siblings_content_lengths(T, element, preceding) ==
  LET p == T[element].par
      i == IndexOf(T[p].kids, element)
      sibs == IF p = 0 THEN <<>>
              ELSE IF preceding THEN Reverse(SubSeq(T[p].kids, 1, i - 1))
              ELSE SubSeq(T[p].kids, i + 1, Len(T[p].kids))
      lens == SelectSeq([k \in 1..Len(sibs) |-> text_length(T, sibs[k])], LAMBDA x : x # 0)
  IN  IF lens = <<>> THEN <<>> ELSE <<lens[1]>>

RECURSIVE SumSeq(_)
SumSeq(xs) == IF xs = <<>> THEN 0 ELSE xs[1] + SumSeq(Tail(xs))

\* a check_if_allowed that cancels the removal but records nothing
check_if_allowed_forgetful(T, element, allowed, to_remove) ==
  LET siblings == get_siblings_content_lengths(T, element, FALSE)
                  \o get_siblings_content_lengths(T, element, TRUE)
  IN  IF siblings # <<>> /\ SumSeq(siblings) > 1000
      THEN [allowed |-> allowed, to_remove |-> FALSE]
      ELSE [allowed |-> allowed, to_remove |-> to_remove]

\* check_if_allowed(element, allowed, to_remove): [allowed, to_remove]
check_if_allowed(T, element, allowed, to_remove) ==
  LET siblings == get_siblings_content_lengths(T, element, FALSE)
                  \o get_siblings_content_lengths(T, element, TRUE)
  IN  IF siblings # <<>> /\ SumSeq(siblings) > 1000
      THEN [allowed |-> allowed \cup {Tags3(T, element, "table", "ul", "div")[k] :
                                        k \in 1..Len(Tags3(T, element, "table", "ul", "div"))},
            to_remove |-> FALSE]
      ELSE [allowed |-> allowed, to_remove |-> to_remove]

\* counts[kind] for kind in p, img, li, a, embed, input, after the two
\* subtractions
Counts(T, element) ==
  [p |-> Len(FindAll(T, element, "p")),
   img |-> Len(FindAll(T, element, "img")),
   li |-> Len(FindAll(T, element, "li")) - 100,
   a |-> Len(FindAll(T, element, "a")),
   embed |-> Len(FindAll(T, element, "embed")),
   input |-> Len(FindAll(T, element, "input"))
             - Len(SelectSeq(FindAll(T, element, "input"),
                             LAMBDA k : Get(T[k], "type", "") = "hidden"))]

\* a counts_conditions that drops for more images than paragraphs also when
\* there is no paragraph
counts_conditions_any(counts) ==
  \/ counts.img > counts.p
  \/ 3 * counts.input > counts.p

\* counts_conditions(counts); counts["input"] > counts["p"] / 3 is a float
\* comparison
counts_conditions(counts) ==
  \/ counts.p # 0 /\ counts.img > counts.p
  \/ 3 * counts.input > counts.p

\* density_conditions(weight, link_density)
density_conditions(weight, link_density) ==
  \/ weight < 25 /\ RLt(Rat(2, 10), link_density)
  \/ weight >= 25 /\ RLt(Rat(5, 10), link_density)

\* the any([...]) of remove_unnecessary_element
RemovalCondition(T, element, weight) ==
  LET counts == Counts(T, element)
      content_length == text_length(T, element)
      link_density == get_link_density(T, element)
  IN  \/ counts_conditions(counts)
      \/ density_conditions(weight, link_density)
      \/ counts.li > counts.p /\ T[element].tag # "ul" /\ T[element].tag # "ol"
      \/ content_length < TEXT_LENGTH_THRESHOLD /\ (counts.img = 0 \/ counts.img > 2)
      \/ (counts.embed = 1 /\ content_length < 75) \/ counts.embed > 1

\* remove_unnecessary_element(element, weight, allowed): [T, allowed]
remove_unnecessary_element(T, element, weight, allowed) ==
  LET r == check_if_allowed(T, element, allowed, RemovalCondition(T, element, weight))
  IN  [T |-> IF r.to_remove THEN DropTree(T, element) ELSE T, allowed |-> r.allowed]

\* the body of the loop of step 3 on one table, ul or div; s is [T, allowed]
CleanConditionally(s, kw, cands, el) ==
  LET weight == class_weight(kw, s.T[el])
      content_score == IF IsCandidate(cands, el)
                       THEN cands[CandIndex(cands, el)].content_score
                       ELSE RInt(0)
  IN  IF el \in s.allowed THEN s
      ELSE IF RLt(RAdd(RInt(weight), content_score), RInt(0))
      THEN [s EXCEPT !.T = DropTree(s.T, el)]
      ELSE IF CountChar(TextContent(s.T, el), ",") < 10
      THEN remove_unnecessary_element(s.T, el, weight, s.allowed)
      ELSE s

RECURSIVE CleanList(_, _, _, _)
CleanList(s, kw, cands, es) ==
  IF es = <<>> THEN s
  ELSE CleanList(CleanConditionally(s, kw, cands, es[1]), kw, cands, Tail(es))

\* for el in self.reverse_tags(node, "table", "ul", "div"): a generator, the
\* reversed list of one tag name is built when the loop reaches that name
RECURSIVE CleanTags(_, _, _, _, _)
CleanTags(s, kw, cands, node, names) ==
  IF names = <<>> THEN s
  ELSE CleanTags(CleanList(s, kw, cands, Reverse(FindAll(s.T, node, names[1]))),
                 kw, cands, node, Tail(names))

\* the tree after the three pruning steps of sanitize
SanitizeTree(T, kw, node, cands) ==
  LET T1 == SanitizeHeaders(T, kw, node, HeaderTags)
      T2 == DropTags(T1, node, <<"form", "iframe", "textarea">>)
  IN  CleanTags([T |-> T2, allowed |-> {}], kw, cands, node, <<"table", "ul", "div">>).T

\* sanitize(node, candidates): [T, cleaned_article]
sanitize(T, kw, node, cands) ==
  LET T3 == SanitizeTree(T, kw, node, cands)
  IN  [T |-> T3, cleaned_article |-> clean_attributes(Serialize(T3, node))]

---------------------------------------------------------------------------
(* Input trees *)

\* a tree written as nested elements: kids holds the child elements
RECURSIVE BuildInto(_, _, _)
RECURSIVE BuildKids(_, _, _)
BuildInto(T, el, parent) ==
  LET id == Len(T) + 1
      T0 == Append(T, [Elem(el.tag, el.attrs, el.text, el.tail, <<>>) EXCEPT !.par = parent])
      T1 == IF parent = 0 THEN T0 ELSE [T0 EXCEPT ![parent].kids = Append(@, id)]
  IN  BuildKids(T1, el.kids, id)
BuildKids(T, ks, parent) ==
  IF ks = <<>> THEN T ELSE BuildKids(BuildInto(T, ks[1], parent), Tail(ks), parent)

\* the tree of a nested element; the root is element 1, the others follow in
\* document order
Tree(el) == BuildInto(<<>>, el, 0)

X(n) == <<R("x", n)>>

Class(c) == IF c = "" THEN <<>> ELSE <<At("class", c)>>

\* <tag class=c>text</tag>
Leaf(tag, c, text) == Elem(tag, Class(c), text, <<>>, <<>>)

\* <tag class=c>kids</tag>
Box(tag, c, kids) == Elem(tag, Class(c), <<>>, <<>>, kids)

\* texts: too short to count, a paragraph, a paragraph with a comma and a
\* blank, long paragraphs, and one whose raw length reaches the threshold
\* while its cleaned length does not
Short == X(5)
Para30 == X(30)
Para120 == X(120)
ParaComma == <<R("x", 60), R(",", 1), R(" ", 1), R("x", 58)>>
Para300 == X(300)
Spaced == <<R("x", 20), R(" ", 10), R("x", 4)>>

\* the heading of the article
Heading(kind) ==
  IF kind = "plain" THEN <<Leaf("h2", "", X(12))>>
  ELSE IF kind = "linked" THEN <<Box("h2", "", <<Leaf("a", "", X(12))>>)>>
  ELSE IF kind = "widget" THEN <<Leaf("h2", "widget-title", X(12))>>
  ELSE IF kind = "share" THEN <<Leaf("h2", "share-widget", X(12))>>
  ELSE IF kind = "mixed"
  THEN <<Leaf("h1", "", X(12)),
         Box("h3", "share-widget", <<Leaf("a", "", X(12))>>),
         Leaf("h2", "widget-title", X(12))>>
  ELSE <<>>

\* a page: html > body > [div.comment] [div.sidebar] div.mainCls [div.page-footer]
Page(mainCls, texts, head, sides) ==
  Tree(Box("html", "", <<
    Box("body", "",
      (IF sides >= 3 THEN <<Leaf("div", "comment", Para30)>> ELSE <<>>)
      \o (IF sides >= 1 THEN <<Box("div", "sidebar", <<Leaf("p", "", Para30)>>)>> ELSE <<>>)
      \o <<Box("div", mainCls,
                Heading(head) \o <<Leaf("p", "", texts[1]), Leaf("p", "", texts[2])>>)>>
      \o (IF sides >= 2 THEN <<Box("div", "page-footer", <<Leaf("p", "", Para120)>>)>>
          ELSE <<>>))>>))

PageTexts ==
  {<<Para120, Para120>>, <<Para30, Para30>>, <<Short, Short>>, <<Spaced, Short>>,
   <<Para300, ParaComma>>}

MaxSides == 3

Pages ==
  {Page(c, t, "none", n) : c \in {"", "article-body", "widget"}, t \in PageTexts,
                           n \in 0..MaxSides}
  \cup {Page(c, t, h, 0) : c \in {"", "article-body"},
                           t \in {<<Para120, Para120>>, <<Para30, Para30>>},
                           h \in {"plain", "linked", "widget", "share", "mixed"}}

\* a tree whose root is a div without parent (no html, no body)
Fragment(rootCls, shape, text) ==
  Tree(Box("div", rootCls,
    IF shape = "direct" THEN <<Leaf("p", "", text), Leaf("p", "", text)>>
    ELSE IF shape = "nested"
    THEN <<Box("div", "", <<Leaf("p", "", text), Leaf("p", "", text)>>)>>
    ELSE IF shape = "loose" THEN <<Leaf("div", "", text)>>
    ELSE <<Box("article", "", <<Leaf("p", "", text), Leaf("p", "", text)>>)>>))

Fragments ==
  {Fragment(c, s, t) : c \in {"", "sidebar"},
                       s \in {"direct", "nested", "loose", "article"},
                       t \in {Short, Para30, Para120}}

\* attributes of several shapes, a script, a style, a br and tail text
Decorated ==
  Tree(Box("html", "", <<
    Box("body", "", <<
      Elem("div", <<At("id", "Content"), At("data-id", "7")>>, Para30, <<>>, <<
        Elem("script", <<>>, X(40), <<>>, <<>>),
        Elem("p", <<At("class", "lead"), At("title", "a b")>>, Para120, <<>>, <<
          Elem("img", <<At("src", "a.png"), At("alt", "")>>, <<>>, Short, <<>>)>>),
        Elem("br", <<>>, <<>>, Para30, <<>>),
        Elem("style", <<>>, X(40), <<R("\n", 1)>>, <<>>),
        Leaf("p", "", Para120)>>)>>)>>))

\* an article element around an element marked itemprop="articleBody", with
\* a body around them or without
Marked(withBody) ==
  LET marked == Elem("div", <<At("itemprop", "articleBody")>>, <<>>, <<>>,
                     <<Leaf("p", "", Para120), Leaf("p", "", Para120)>>)
      around == Box("article", "", <<Leaf("p", "", Para30), marked>>)
  IN  IF withBody THEN Tree(Box("html", "", <<Box("body", "", <<around>>)>>))
      ELSE Tree(Box("div", "", <<around>>))

Inputs == Pages \cup Fragments \cup {Decorated} \cup {Marked(b) : b \in BOOLEAN}

---------------------------------------------------------------------------
(* ArticleExtractor.get_clean_html as a state machine *)

VARIABLES
  T,                \* the elements: the tree of source_html and what is built
  source_html,      \* the argument: the root element, 0 for None
  html_partial,     \* the argument, then the local variable
  kw,               \* self._positive_keywords, self._negative_keywords
  html,             \* self._html, 0 for None
  ruthless,         \* the local variable
  candidates,       \* the local variable
  article,          \* the local variable
  cleaned_article,  \* the local variable
  passes,           \* iterations of the while loop started so far
  pc,               \* where the call is
  exc,              \* the exception raised inside the try block
  result,           \* what the call returned
  error,            \* what the call raised
  given,            \* the arguments as the caller passed them
  probe             \* the inputs and results of a function applied on its own

vars == <<T, source_html, html_partial, kw, html, ruthless, candidates, article,
          cleaned_article, passes, pc, exc, result, error, given, probe>>

NoResult == [returned |-> FALSE, none |-> FALSE, markup |-> <<>>]
ReturnNone == [returned |-> TRUE, none |-> TRUE, markup |-> <<>>]
\* a return that gives None for a result below RETRY_LENGTH
ReturnShortAsNone(m) ==
  [returned |-> TRUE, none |-> MarkupLen(m) < RETRY_LENGTH, markup |-> m]

ReturnMarkup(m) == [returned |-> TRUE, none |-> FALSE, markup |-> m]

NoKeywords == [pos |-> {}, neg |-> {}]

NoProbe == [stage |-> "none"]

Init ==
  /\ \/ T \in Inputs /\ source_html = 1
     \/ T = <<>> /\ source_html = 0
  /\ html_partial \in BOOLEAN
  /\ kw = NoKeywords
  /\ html = 0
  /\ ruthless = FALSE
  /\ candidates = <<>>
  /\ article = 0
  /\ cleaned_article = <<>>
  /\ passes = 0
  /\ pc = "call"
  /\ exc = NoExc
  /\ result = NoResult
  /\ error = NoExc
  /\ given = [tree |-> T, html_partial |-> html_partial]
  /\ probe = NoProbe

\* lines 78-82: the None check, then ruthless = True
Enter ==
  /\ pc = "call"
  /\ IF source_html = 0
     THEN /\ pc' = "returned"
          /\ result' = ReturnNone
          /\ UNCHANGED ruthless
     ELSE /\ pc' = "scan"
          /\ ruthless' = TRUE
          /\ UNCHANGED result
  /\ UNCHANGED <<T, source_html, html_partial, kw, html, candidates, article,
                 cleaned_article, passes, exc, error, given, probe>>

\* lines 84-88: the head of the loop and narrow_scope
NarrowScope ==
  /\ pc = "scan"
  /\ LET r == narrow_scope(T, source_html, html_partial)
     IN  /\ html' = r.html
         /\ html_partial' = r.html_partial
  /\ passes' = passes + 1
  /\ pc' = "find"
  /\ UNCHANGED <<T, source_html, kw, ruthless, candidates, article, cleaned_article,
                 exc, result, error, given, probe>>

\* line 91: find_candidates
FindCandidates ==
  /\ pc = "find"
  /\ \E outcome \in IterOutcomes :
       LET r == find_candidates(T, html, ruthless, kw, outcome)
       IN  /\ T' = r.T
           /\ IF r.exc.raised
              THEN pc' = "except" /\ exc' = r.exc /\ UNCHANGED candidates
              ELSE pc' = "select" /\ candidates' = r.candidates /\ UNCHANGED exc
  /\ UNCHANGED <<source_html, html_partial, kw, html, ruthless, article,
                 cleaned_article, passes, result, error, given, probe>>

\* lines 94-97: get_possible_article and the first continue
GetPossibleArticle ==
  /\ pc = "select"
  /\ LET r == get_possible_article(T, html, candidates, html_partial, ruthless)
     IN  /\ T' = r.T
         /\ IF r.exc.raised
            THEN pc' = "except" /\ exc' = r.exc /\ UNCHANGED <<article, ruthless>>
            ELSE /\ article' = r.article
                 /\ ruthless' = r.ruthless
                 /\ pc' = IF r.should_continue THEN "scan" ELSE "sanitize"
                 /\ UNCHANGED exc
  /\ UNCHANGED <<source_html, html_partial, kw, html, candidates, cleaned_article,
                 passes, result, error, given, probe>>

\* the length of the text between the tags of the markup
RECURSIVE MarkupTextLen(_)
MarkupTextLen(m) == IF m = <<>> THEN 0 ELSE TLen(m[1].t) + MarkupTextLen(Tail(m))

\* a retry decided by the length of the text, the tags not counted
RetryOnText(is_ruthless, cleaned) == is_ruthless /\ MarkupTextLen(cleaned) < RETRY_LENGTH

\* a retry whatever the flag is
RetryWhenShort(is_ruthless, cleaned) == MarkupLen(cleaned) < RETRY_LENGTH

\* line 105: the condition of the second continue
ShouldRetry(is_ruthless, cleaned) == is_ruthless /\ MarkupLen(cleaned) < RETRY_LENGTH

\* lines 99-109: sanitize and the length check
Sanitize ==
  /\ pc = "sanitize"
  /\ LET r == sanitize(T, kw, article, candidates)
     IN  /\ T' = r.T
         /\ html' = article
         /\ cleaned_article' = r.cleaned_article
         /\ IF ShouldRetry(ruthless, r.cleaned_article)
            THEN ruthless' = FALSE /\ pc' = "scan" /\ UNCHANGED result
            ELSE /\ result' = ReturnMarkup(r.cleaned_article)
                 /\ pc' = "returned"
                 /\ UNCHANGED ruthless
  /\ UNCHANGED <<source_html, html_partial, kw, candidates, article, passes, exc, error,
                 given, probe>>

\* a handler that reports the type of the exception instead of its text
UnparseableByType(e) == Exc("Unparseable", e.type)

\* lines 111-113: except Exception as e: raise Unparseable(str(e))
Unparseable(e) == Exc("Unparseable", e.msg)

Handler ==
  /\ pc = "except"
  /\ error' = Unparseable(exc)
  /\ pc' = "raised"
  /\ UNCHANGED <<T, source_html, html_partial, kw, html, ruthless, candidates, article,
                 cleaned_article, passes, exc, result, given, probe>>

Next == Enter \/ NarrowScope \/ FindCandidates \/ GetPossibleArticle \/ Sanitize \/ Handler

Spec == Init /\ [][Next]_vars

---------------------------------------------------------------------------
(* score_paragraphs applied on its own to two trees that differ only in how
   many of the paragraphs have their text inside a link *)

\* a paragraph, its text inside <a> when linked
Paragraph(text, linked) ==
  IF linked THEN Box("p", "", <<Leaf("a", "", text)>>) ELSE Leaf("p", "", text)

MaxLinks == 2

\* body > div.cls > p ... p: MaxLinks paragraphs, the first `links` of them linked
Linked(cls, text, links) ==
  Tree(Box("body", "", <<
    Box("div", cls, [i \in 1..MaxLinks |-> Paragraph(text, i <= links)])>>))

\* the entry of element e in a dict of candidates
CandidateOf(cands, e) == cands[CandIndex(cands, e)]

\* the score of the div (element 2) before and after the scaling loop of
\* score_paragraphs, with the two factors of the scaling
ScoreOfDiv(tree) ==
  [score |-> CandidateOf(ScoreParagraphs(<<>>, tree, NoKeywords,
                                         Tags3(tree, 1, "p", "pre", "td")), 2).content_score,
   text |-> TextContent(tree, 2),
   ld |-> get_link_density(tree, 2),
   final |-> CandidateOf(score_paragraphs(tree, 1, NoKeywords), 2).content_score]

InitScale ==
  /\ T = <<>>
  /\ source_html = 0
  /\ html_partial = FALSE
  /\ kw = NoKeywords
  /\ html = 0
  /\ ruthless = FALSE
  /\ candidates = <<>>
  /\ article = 0
  /\ cleaned_article = <<>>
  /\ passes = 0
  /\ pc = "idle"
  /\ exc = NoExc
  /\ result = NoResult
  /\ error = NoExc
  /\ given = [tree |-> <<>>, html_partial |-> FALSE]
  /\ \E cls \in {"", "widget", "article-body"}, text \in {Para30, Para120, ParaComma} :
       \E la \in 0..MaxLinks, lb \in 0..MaxLinks :
         probe = [stage |-> "input", a |-> Linked(cls, text, la), b |-> Linked(cls, text, lb)]

ScoreLinked ==
  /\ probe.stage = "input"
  /\ probe' = [stage |-> "scored", a |-> ScoreOfDiv(probe.a), b |-> ScoreOfDiv(probe.b)]
  /\ UNCHANGED <<T, source_html, html_partial, kw, html, ruthless, candidates, article,
                 cleaned_article, passes, pc, exc, result, error, given>>

NextScale == ScoreLinked

SpecScale == InitScale /\ [][NextScale]_vars

---------------------------------------------------------------------------
(* get_article applied twice with the candidates and the best candidate of
   the first pass *)

\* what a call of get_article gives: the exception, the elements of the
\* source tree (of n elements) under the output in document order, those of
\* them that were appended (their parent is an element of the output), and
\* the output serialized
Assembled(a, n) ==
  IF a.exc.raised THEN [exc |-> a.exc, elems |-> <<>>, top |-> <<>>, markup |-> <<>>]
  ELSE [exc |-> a.exc,
        elems |-> SelectSeq(Desc(a.T, a.article), LAMBDA e : e <= n),
        top |-> SelectSeq(Desc(a.T, a.article), LAMBDA e : e <= n /\ a.T[e].par > n),
        markup |-> Serialize(a.T, a.article)]

AssembleTwice ==
  /\ pc = "select"
  /\ candidates # <<>>
  /\ LET best == select_best_candidate(candidates)
         a1 == get_article(T, candidates, best, html_partial)
         a2 == get_article(a1.T, candidates, best, html_partial)
     IN  probe' = [stage |-> "assembled", first |-> Assembled(a1, Len(T)),
                   second |-> Assembled(a2, Len(T))]
  /\ pc' = "done"
  /\ UNCHANGED <<T, source_html, html_partial, kw, html, ruthless, candidates, article,
                 cleaned_article, passes, exc, result, error, given>>

NextAgain == Enter \/ NarrowScope \/ FindCandidates \/ Handler \/ AssembleTwice

SpecAgain == Init /\ [][NextAgain]_vars

---------------------------------------------------------------------------
(* class_weight applied on its own, with custom keywords *)

\* compile_pattern(elements) for a list of keywords (a set here, the order
\* of an alternation of literals does not change whether it matches):
\* the keywords lowered; the empty set stands for None
compile_pattern(elements) == {Lower(x) : x \in elements}

\* the keyword lists given to ArticleExtractor(positive_keywords, negative_keywords)
KeywordLists ==
  {<<{}, {}>>, <<{"Lead"}, {"promo"}>>, <<{"tag-h2", "share"}, {"tag-div"}>>,
   <<{"widget"}, {"widget", "content"}>>}

InitWeight ==
  /\ T = <<>>
  /\ source_html = 0
  /\ html_partial = FALSE
  /\ \E lists \in KeywordLists :
       kw = [pos |-> compile_pattern(lists[1]), neg |-> compile_pattern(lists[2])]
  /\ html = 0
  /\ ruthless = FALSE
  /\ candidates = <<>>
  /\ article = 0
  /\ cleaned_article = <<>>
  /\ passes = 0
  /\ pc = "idle"
  /\ exc = NoExc
  /\ result = NoResult
  /\ error = NoExc
  /\ given = [tree |-> <<>>, html_partial |-> FALSE]
  /\ \E c \in {"", "widget", "share-widget", "article-body", "lead story", "Lead", "PROMO"},
        i \in {"", "Content", "footer", "promo-box"}, tag \in {"div", "h2", "p"} :
       probe = [stage |-> "input",
                el |-> Elem(tag, Class(c) \o (IF i = "" THEN <<>> ELSE <<At("id", i)>>),
                            <<>>, <<>>, <<>>)]

Weigh ==
  /\ probe.stage = "input"
  /\ probe' = [stage |-> "weighed", el |-> probe.el,
               weight |-> class_weight(kw, probe.el),
               again |-> class_weight(kw, probe.el)]
  /\ UNCHANGED <<T, source_html, html_partial, kw, html, ruthless, candidates, article,
                 cleaned_article, passes, pc, exc, result, error, given>>

SpecWeight == InitWeight /\ [][Weigh]_vars

---------------------------------------------------------------------------
(* find_candidates with the first loop of score_paragraphs taken one
   paragraph at a time, on the input trees and on trees that mix p, pre and
   td, followed by select_best_candidate *)

\* html > body > two divs, each around one p, pre or td
Mixed(t1, t2, x1, x2) ==
  Tree(Box("html", "", <<
    Box("body", "", <<
      Box("div", "", <<Leaf(t1, "", x1)>>),
      Box("div", "", <<Leaf(t2, "", x2)>>)>>)>>))

InitWalk ==
  /\ T \in Inputs \cup {Mixed(t1, t2, x1, x2) : t1 \in {"p", "pre", "td"},
                                                 t2 \in {"p", "pre", "td"},
                                                 x1 \in {Short, Para30, ParaComma},
                                                 x2 \in {Short, Para30, ParaComma}}
  /\ source_html = 1
  /\ html_partial = FALSE
  /\ kw = NoKeywords
  /\ html = 0
  /\ ruthless = FALSE
  /\ candidates = <<>>
  /\ article = 0
  /\ cleaned_article = <<>>
  /\ passes = 0
  /\ pc = "call"
  /\ exc = NoExc
  /\ result = NoResult
  /\ error = NoExc
  /\ given = [tree |-> T, html_partial |-> html_partial]
  /\ probe = NoProbe

\* find_candidates up to the call of score_paragraphs, and lines 260-263:
\* candidates = {}, ordered = [], the generator self.tags(...)
Preprocess ==
  /\ pc = "find"
  /\ \E outcome \in IterOutcomes :
       LET r == find_candidates(T, html, ruthless, kw, outcome)
       IN  /\ T' = r.T
           /\ IF r.exc.raised
              THEN pc' = "except" /\ exc' = r.exc /\ UNCHANGED probe
              ELSE /\ pc' = "walk"
                   /\ probe' = [stage |-> "walk", elem |-> 0,
                                rest |-> Tags3(r.T, html, "p", "pre", "td")]
                   /\ UNCHANGED exc
  /\ candidates' = <<>>
  /\ UNCHANGED <<source_html, html_partial, kw, html, ruthless, article,
                 cleaned_article, passes, result, error, given>>

\* one iteration of the first loop of score_paragraphs
ScoreNext ==
  /\ pc = "walk"
  /\ probe.rest # <<>>
  /\ candidates' = ScoreParagraph(candidates, T, kw, Head(probe.rest))
  /\ probe' = [probe EXCEPT !.elem = Head(probe.rest), !.rest = Tail(probe.rest)]
  /\ UNCHANGED <<T, source_html, html_partial, kw, html, ruthless, article,
                 cleaned_article, passes, pc, exc, result, error, given>>

\* the second loop of score_paragraphs and the return
ScaleAll ==
  /\ pc = "walk"
  /\ probe.rest = <<>>
  /\ candidates' = [i \in 1..Len(candidates) |-> ScaleCandidate(T, candidates[i])]
  /\ pc' = "select"
  /\ UNCHANGED <<T, source_html, html_partial, kw, html, ruthless, article,
                 cleaned_article, passes, exc, result, error, given, probe>>

\* best_candidate = self.select_best_candidate(candidates)
SelectBest ==
  /\ pc = "select"
  /\ probe' = [stage |-> "selected", best |-> select_best_candidate(candidates)]
  /\ pc' = "done"
  /\ UNCHANGED <<T, source_html, html_partial, kw, html, ruthless, candidates, article,
                 cleaned_article, passes, exc, result, error, given>>

NextWalk ==
  Enter \/ NarrowScope \/ Preprocess \/ ScoreNext \/ ScaleAll \/ SelectBest \/ Handler

SpecWalk == InitWalk /\ [][NextWalk]_vars

---------------------------------------------------------------------------
(* get_clean_html on pages whose main div has siblings of the kinds
   is_appendable tells apart *)

\* one sibling of the main div
Kin(kind) ==
  IF kind = "dot" THEN <<Leaf("p", "", <<R("x", 30), R(".", 1)>>)>>
  ELSE IF kind = "bang" THEN <<Leaf("p", "", <<R("x", 30), R("!", 1)>>)>>
  ELSE IF kind = "mid" THEN <<Leaf("p", "", <<R("x", 10), R(".", 1), R(" ", 1), R("x", 10)>>)>>
  ELSE IF kind = "plain" THEN <<Leaf("p", "", X(30))>>
  ELSE IF kind = "long" THEN <<Leaf("p", "", X(90))>>
  ELSE IF kind = "linked" THEN <<Elem("p", <<>>, X(90), <<>>, <<Leaf("a", "", X(60))>>)>>
  ELSE IF kind = "inner" THEN <<Elem("p", <<>>, Short, <<>>, <<Leaf("span", "", X(100))>>)>>
  ELSE IF kind = "dotlinked"
  THEN <<Elem("p", <<>>, <<R("x", 30), R(".", 1)>>, <<>>, <<Leaf("a", "", Short)>>)>>
  ELSE IF kind = "weak" THEN <<Box("div", "", <<Leaf("p", "", Para30)>>)>>
  ELSE IF kind = "strong" THEN <<Box("div", "content", <<Leaf("p", "", Para120)>>)>>
  ELSE <<>>

Kinds ==
  {"dot", "bang", "mid", "plain", "long", "linked", "inner", "dotlinked", "weak", "strong",
   "none"}

\* html > body > [sibling] div.article-body [sibling]
KinPage(k1, k2) ==
  Tree(Box("html", "", <<
    Box("body", "",
      Kin(k1)
      \o <<Box("div", "article-body", <<Leaf("p", "", Para120), Leaf("p", "", Para120)>>)>>
      \o Kin(k2))>>))

InitKin ==
  /\ T \in {KinPage(k1, k2) : k1 \in Kinds, k2 \in Kinds}
            \cup {Fragment("", "direct", Para120)}
  /\ source_html = 1
  /\ html_partial \in BOOLEAN
  /\ kw = NoKeywords
  /\ html = 0
  /\ ruthless = FALSE
  /\ candidates = <<>>
  /\ article = 0
  /\ cleaned_article = <<>>
  /\ passes = 0
  /\ pc = "call"
  /\ exc = NoExc
  /\ result = NoResult
  /\ error = NoExc
  /\ given = [tree |-> T, html_partial |-> html_partial]
  /\ probe = NoProbe

SpecKin == InitKin /\ [][Next]_vars

---------------------------------------------------------------------------
(* get_clean_html with step 3 of sanitize taken one element at a time, on
   pages whose main div holds the structures the step tells apart *)

\* the structures between the two paragraphs of the main div
Struct(kind) ==
  IF kind = "ul-div"
  THEN <<Box("ul", "", <<Leaf("li", "", X(40)),
                         Box("li", "", <<Leaf("div", "promo-box", Para30)>>)>>)>>
  ELSE IF kind = "table-div"
  THEN <<Box("table", "", <<Box("tr", "", <<Leaf("td", "", Para30),
                                            Box("td", "", <<Leaf("div", "", Short)>>)>>)>>)>>
  ELSE IF kind = "div-div" THEN <<Box("div", "", <<Leaf("div", "", Short)>>)>>
  ELSE IF kind = "imgs"
  THEN <<Box("div", "", <<Leaf("img", "", <<>>), Leaf("img", "", <<>>), Leaf("img", "", <<>>),
                          Leaf("p", "", Para30)>>)>>
  ELSE IF kind = "input"
  THEN <<Box("div", "", <<Leaf("input", "", <<>>), Leaf("p", "", Para30),
                          Leaf("p", "", Para30)>>)>>
  ELSE IF kind = "hidden"
  THEN <<Box("div", "", <<Elem("input", <<At("type", "hidden")>>, <<>>, <<>>, <<>>),
                          Leaf("p", "", Para30), Leaf("p", "", Para30)>>)>>
  ELSE IF kind = "links"
  THEN <<Box("div", "", <<Elem("p", <<>>, X(60), <<>>, <<Leaf("a", "", Para30)>>)>>)>>
  ELSE IF kind = "links-content"
  THEN <<Box("div", "content", <<Elem("p", <<>>, X(60), <<>>, <<Leaf("a", "", Para30)>>)>>)>>
  ELSE IF kind = "links-heavy"
  THEN <<Box("div", "content", <<Elem("p", <<>>, Para30, <<>>, <<Leaf("a", "", X(60))>>)>>)>>
  ELSE IF kind = "imgs-span"
  THEN <<Box("div", "", <<Leaf("img", "", <<>>), Leaf("img", "", <<>>),
                          Leaf("span", "", Para30)>>)>>
  ELSE IF kind = "embed"
  THEN <<Box("div", "", <<Leaf("embed", "", <<>>), Leaf("p", "", Para30)>>)>>
  ELSE IF kind = "embeds"
  THEN <<Box("div", "", <<Leaf("embed", "", <<>>), Leaf("embed", "", <<>>),
                          Leaf("p", "", Para120)>>)>>
  ELSE IF kind = "commas" THEN <<Leaf("div", "", <<R(",", 10)>>)>>
  ELSE IF kind = "promo" THEN <<Box("div", "promo-box", <<Leaf("p", "", Para120)>>)>>
  ELSE IF kind = "guarded"
  THEN <<Box("div", "", <<
           Leaf("p", "", X(600)),
           Box("table", "", <<Box("tr", "", <<Leaf("td", "", Para30),
                                              Box("td", "", <<Leaf("div", "", Short)>>)>>)>>),
           Leaf("p", "", X(600)),
           Leaf("img", "", <<>>), Leaf("img", "", <<>>), Leaf("img", "", <<>>),
           Leaf("img", "", <<>>)>>)>>
  ELSE <<>>

Structs ==
  {"ul-div", "table-div", "div-div", "imgs", "input", "hidden", "links", "links-content",
   "links-heavy", "imgs-span", "embed", "embeds", "commas", "promo", "guarded", "none"}

\* html > body > div.article-body > p, structure, p
PrunePage(kind, side) ==
  Tree(Box("html", "", <<
    Box("body", "", <<
      Box("div", "article-body",
          <<Leaf("p", "", side)>> \o Struct(kind) \o <<Leaf("p", "", side)>>)>>)>>))

InitPrune ==
  /\ T \in {PrunePage(k, s) : k \in Structs, s \in {Para120, X(600)}}
            \cup {Fragment("", "direct", Para120)}
  /\ source_html = 1
  /\ html_partial \in BOOLEAN
  /\ kw = NoKeywords
  /\ html = 0
  /\ ruthless = FALSE
  /\ candidates = <<>>
  /\ article = 0
  /\ cleaned_article = <<>>
  /\ passes = 0
  /\ pc = "call"
  /\ exc = NoExc
  /\ result = NoResult
  /\ error = NoExc
  /\ given = [tree |-> T, html_partial |-> html_partial]
  /\ probe = NoProbe

\* lines 475-481: steps 1 and 2 of sanitize, then allowed = {} and the
\* generator self.reverse_tags(node, "table", "ul", "div")
StartClean ==
  /\ pc = "sanitize"
  /\ T' = DropTags(SanitizeHeaders(T, kw, article, HeaderTags), article,
                   <<"form", "iframe", "textarea">>)
  /\ probe' = [stage |-> "clean", start |-> T, names |-> <<"table", "ul", "div">>,
               rest |-> <<>>, allowed |-> {}, visited |-> <<>>]
  /\ pc' = "clean"
  /\ UNCHANGED <<source_html, html_partial, kw, html, ruthless, candidates, article,
                 cleaned_article, passes, exc, result, error, given>>

\* reverse_tags reaches the next tag name: reversed(node.findall('.//name'))
NextTag ==
  /\ pc = "clean"
  /\ probe.rest = <<>>
  /\ probe.names # <<>>
  /\ probe' = [probe EXCEPT !.rest = Reverse(FindAll(T, article, Head(probe.names))),
                            !.names = Tail(probe.names)]
  /\ UNCHANGED <<T, source_html, html_partial, kw, html, ruthless, candidates, article,
                 cleaned_article, passes, pc, exc, result, error, given>>

\* one iteration of the loop of step 3
Visit ==
  /\ pc = "clean"
  /\ probe.rest # <<>>
  /\ LET s == CleanConditionally([T |-> T, allowed |-> probe.allowed], kw, candidates,
                                 Head(probe.rest))
     IN  /\ T' = s.T
         /\ probe' = [probe EXCEPT !.rest = Tail(probe.rest), !.allowed = s.allowed,
                                   !.visited = Append(probe.visited, Head(probe.rest))]
  /\ UNCHANGED <<source_html, html_partial, kw, html, ruthless, candidates, article,
                 cleaned_article, passes, pc, exc, result, error, given>>

\* the end of sanitize, and lines 103-109 of get_clean_html
Finish ==
  /\ pc = "clean"
  /\ probe.rest = <<>>
  /\ probe.names = <<>>
  /\ html' = article
  /\ cleaned_article' = clean_attributes(Serialize(T, article))
  /\ IF ShouldRetry(ruthless, cleaned_article')
     THEN ruthless' = FALSE /\ pc' = "scan" /\ UNCHANGED result
     ELSE /\ result' = ReturnMarkup(cleaned_article')
          /\ pc' = "returned"
          /\ UNCHANGED ruthless
  /\ UNCHANGED <<T, source_html, html_partial, kw, candidates, article, passes, exc, error,
                 given, probe>>

NextPrune ==
  \/ Enter \/ NarrowScope \/ FindCandidates \/ GetPossibleArticle
  \/ StartClean \/ NextTag \/ Visit \/ Finish \/ Handler

SpecPrune == InitPrune /\ [][NextPrune]_vars

---------------------------------------------------------------------------
(* find_candidates followed by a second run of
   transform_misused_divs_into_paragraphs, on the input trees and on divs
   with loose text, tail text and br children *)

\* the children of the loose div
LooseKids(kind) ==
  IF kind = "tails"
  THEN <<Elem("span", <<>>, Short, X(6), <<>>), Elem("em", <<>>, Short, <<R(" ", 1)>>, <<>>)>>
  ELSE IF kind = "breaks"
  THEN <<Elem("br", <<>>, <<>>, X(6), <<>>), Elem("br", <<>>, <<>>, <<>>, <<>>),
         Elem("br", <<>>, <<>>, <<R(" ", 2)>>, <<>>)>>
  ELSE IF kind = "both"
  THEN <<Elem("span", <<>>, Short, X(6), <<>>), Elem("br", <<>>, <<>>, <<R(" ", 1)>>, <<>>),
         Elem("br", <<>>, <<>>, X(6), <<>>), Elem("p", <<>>, Para30, X(7), <<>>)>>
  ELSE IF kind = "nested"
  THEN <<Elem("div", <<>>, Para30, X(8), <<Elem("br", <<>>, <<>>, Short, <<>>)>>),
         Elem("br", <<>>, <<>>, <<>>, <<>>)>>
  ELSE IF kind = "blank" THEN <<Elem("br", <<>>, <<>>, <<R(" ", 1)>>, <<>>)>>
  ELSE <<>>

\* html > body > div with direct text and those children, then a paragraph
Loose(text, kind) ==
  Tree(Box("html", "", <<
    Box("body", "", <<Elem("div", <<>>, text, <<>>, LooseKids(kind)),
                      Leaf("p", "", Para120)>>)>>))

InitTwice ==
  /\ T \in Inputs \cup {Loose(t, k) : t \in {<<>>, Para30, <<R(" ", 1)>>},
                                      k \in {"tails", "breaks", "both", "nested", "blank",
                                             "none"}}
  /\ source_html = 1
  /\ html_partial \in BOOLEAN
  /\ kw = NoKeywords
  /\ html = 0
  /\ ruthless = FALSE
  /\ candidates = <<>>
  /\ article = 0
  /\ cleaned_article = <<>>
  /\ passes = 0
  /\ pc = "call"
  /\ exc = NoExc
  /\ result = NoResult
  /\ error = NoExc
  /\ given = [tree |-> T, html_partial |-> html_partial]
  /\ probe = NoProbe

\* find_candidates, then transform_misused_divs_into_paragraphs once more on
\* the tree it leaves
NormalizeTwice ==
  /\ pc = "find"
  /\ \E outcome \in IterOutcomes :
       LET r == find_candidates(T, html, ruthless, kw, outcome)
       IN  /\ T' = r.T
           /\ IF r.exc.raised
              THEN pc' = "except" /\ exc' = r.exc /\ UNCHANGED probe
              ELSE /\ pc' = "done"
                   /\ probe' = [stage |-> "normalized",
                                again |-> transform_misused_divs_into_paragraphs(r.T, html)]
                   /\ UNCHANGED exc
  /\ UNCHANGED <<source_html, html_partial, kw, html, ruthless, candidates, article,
                 cleaned_article, passes, result, error, given>>

NextTwice == Enter \/ NarrowScope \/ NormalizeTwice \/ Handler

SpecTwice == InitTwice /\ [][NextTwice]_vars

---------------------------------------------------------------------------
(* Wanish.perform_url called again and again on one object; the object is
   kept in probe, the tree of _source_html in T, and get_clean_html runs as
   the state machine above *)

\* a value of a field: what it is, the call it was computed in, its text
Val(kind, of, text) == [kind |-> kind, of |-> of, text |-> text]

None == Val("None", 0, "")

\* Python's truth value of a string field
Truthy(v) == v # None /\ v.text # ""

MaxCalls == 2

\* the trees fromstring can give for a fetched page
UrlTrees ==
  {Page("article-body", <<Para120, Para120>>, "none", 0),
   Fragment("sidebar", "loose", Short),
   Fragment("", "direct", Para120)}

\* what the collaborators do in one call: the status of the response, where
\* an exception is raised and with what text, whether the page has a
\* canonical link and an image, and its tree
FetchOutcomes ==
  [status : {200, 301, 302, 404, 500},
   raise : {"none", "get", "parse", "clean"},
   msg : {"connection refused", ""},
   canonical : BOOLEAN,
   image : BOOLEAN,
   tree : UrlTrees]

\* __init__ without url
NewWanish ==
  [stage |-> "wanish", at |-> "idle", calls |-> 0, propagated |-> FALSE,
   url |-> None, canonical_url |-> None, title |-> None, image_url |-> None,
   language |-> None, clean_html |-> None, description |-> None, error_msg |-> None,
   source_html |-> None, charset |-> None]

InitUrl ==
  /\ T = <<>>
  /\ source_html = 0
  /\ html_partial = FALSE
  /\ kw = NoKeywords
  /\ html = 0
  /\ ruthless = FALSE
  /\ candidates = <<>>
  /\ article = 0
  /\ cleaned_article = <<>>
  /\ passes = 0
  /\ pc = "idle"
  /\ exc = NoExc
  /\ result = NoResult
  /\ error = NoExc
  /\ given = [tree |-> <<>>, html_partial |-> FALSE]
  /\ probe = NewWanish

\* lines 93-95: the assignments at the head of perform_url, in call n
ResetFields(w, n, url) ==
  [w EXCEPT !.calls = n, !.propagated = FALSE, !.url = Val("url", n, url),
            !.title = None, !.image_url = None, !.language = None,
            !.description = None, !.clean_html = None, !.error_msg = None,
            !.charset = None]

\* lines 101-134: the try block, for a url that is not empty
TryFetch(w, n, o) ==
  IF o.raise = "get" THEN [w EXCEPT !.error_msg = Val("error", n, o.msg)]
  ELSE IF o.status \notin {200, 301, 302}
  THEN [w EXCEPT !.error_msg = Val("error", n, IF o.status = 404
                                                THEN "HTTP Error. Status: 404"
                                                ELSE "HTTP Error. Status: 500")]
  ELSE LET w1 == [w EXCEPT !.url = Val("url", n, "final"),
                           !.charset = Val("charset", n, "utf-8")]
       IN  IF o.raise = "parse" THEN [w1 EXCEPT !.error_msg = Val("error", n, o.msg)]
           ELSE LET w2 == [w1 EXCEPT !.source_html = Val("tree", n, "element"),
                                     !.canonical_url = IF o.canonical
                                                       THEN Val("canonical", n, "href")
                                                       ELSE w1.url]
                IN  IF o.raise = "clean"
                    THEN [w2 EXCEPT !.error_msg = Val("error", n, o.msg)]
                    ELSE w2

\* lines 93-152: perform_url up to the call of get_clean_html
BeginUrl ==
  /\ pc = "idle"
  /\ probe.calls < MaxCalls
  /\ \E url \in {"", "http://a"}, o \in FetchOutcomes :
       LET n == probe.calls + 1
           w0 == ResetFields(probe, n, url)
           w1 == IF url = ""
                 THEN [w0 EXCEPT !.error_msg = Val("error", n, "Empty or null URL to perform")]
                 ELSE TryFetch(w0, n, o)
           fresh == w1.source_html.of = n
       IN  IF url = "" \/ Truthy(w1.error_msg) \/ w1.source_html = None
           THEN /\ probe' = w1
                /\ T' = IF fresh THEN o.tree ELSE T
                /\ UNCHANGED <<source_html, html_partial, html, ruthless, candidates,
                               article, cleaned_article, passes, pc, exc, result, error,
                               given>>
           ELSE /\ probe' = [w1 EXCEPT !.at = "cleaning",
                                       !.title = Val("title", w1.source_html.of, "title"),
                                       !.image_url = IF o.image
                                                     THEN Val("image", w1.source_html.of, "src")
                                                     ELSE None]
                /\ T' = IF fresh THEN o.tree ELSE T
                /\ source_html' = 1
                /\ html_partial' = FALSE
                /\ given' = [tree |-> T', html_partial |-> FALSE]
                /\ ruthless' = FALSE
                /\ candidates' = <<>>
                /\ article' = 0
                /\ cleaned_article' = <<>>
                /\ passes' = 0
                /\ exc' = NoExc
                /\ result' = NoResult
                /\ error' = NoExc
                /\ pc' = "call"
                /\ UNCHANGED html
  /\ UNCHANGED kw

\* lines 155-176: what follows get_clean_html, or its Unparseable leaving
\* perform_url
CompleteUrl ==
  /\ probe.stage = "wanish" /\ probe.at = "cleaning"
  /\ pc \in {"returned", "raised"}
  /\ IF pc = "raised"
     THEN probe' = [probe EXCEPT !.at = "idle", !.propagated = TRUE]
     ELSE IF result.none \/ result.markup = <<>>
     THEN probe' = [probe EXCEPT !.at = "idle"]
     ELSE \E described \in BOOLEAN :
            probe' = [probe EXCEPT
                        !.at = "idle",
                        !.description = IF described
                                        THEN Val("description", probe.source_html.of, "text")
                                        ELSE None,
                        !.language = Val("language", probe.source_html.of, "en"),
                        !.clean_html = Val("article", probe.source_html.of, "template")]
  /\ pc' = "idle"
  /\ UNCHANGED <<T, source_html, html_partial, kw, html, ruthless, candidates, article,
                 cleaned_article, passes, exc, result, error, given>>

NextUrl ==
  \/ BeginUrl
  \/ Enter \/ NarrowScope \/ FindCandidates \/ GetPossibleArticle \/ Sanitize \/ Handler
  \/ CompleteUrl

SpecUrl == InitUrl /\ [][NextUrl]_vars

---------------------------------------------------------------------------
(* Properties *)

\* C1: an exception raised inside the retry loop reaches the caller as one
\* Unparseable error whose message is the text of the original exception,
\* and the call returns no markup: once an exception is raised the call is
\* in the handler or has raised, nothing has been returned, and what is
\* raised is Unparseable carrying str(e).
C1_ExceptionBecomesUnparseable ==
  /\ exc.raised => pc \in {"except", "raised"} /\ result = NoResult
  /\ pc = "raised" => exc.raised /\ error = Exc("Unparseable", exc.msg)
  /\ error.raised => pc = "raised" /\ error.type = "Unparseable"

\* C1: a call that raised Unparseable with the text of an AttributeError
C1_Raised ==
  pc = "raised" /\ exc.type = "AttributeError" /\ error.msg = NoParentError.msg

\* no element of the tree has cleaned text of TEXT_LENGTH_THRESHOLD characters
NoParagraphText(tree) ==
  \A e \in 1..Len(tree) : text_length(tree, e) < TEXT_LENGTH_THRESHOLD

\* C2: for a tree in which no element (so no p, pre or td) has cleaned text
\* of 25 characters or more, the candidates are empty in both passes, the
\* call sanitizes the fallback (the body child of the working root, or the
\* working root) in the second pass and returns it, and it never raises.
C2_ShortTreeFallsBack ==
  (source_html # 0 /\ NoParagraphText(given.tree)) =>
    /\ pc \notin {"except", "raised"}
    /\ pc = "select" => candidates = <<>>
    /\ pc = "sanitize" =>
         /\ passes = 2 /\ ~ruthless
         /\ article = IF FindChild(T, html, "body") # 0 THEN FindChild(T, html, "body")
                      ELSE html
    /\ pc = "returned" => passes = 2 /\ result = ReturnMarkup(cleaned_article)

\* C3: one call runs at most two iterations of the loop; ruthless is true in
\* the first, false in the second, and goes only from true to false; an
\* iteration that starts with ruthless false ends the call.
C3_AtMostTwoPasses ==
  /\ [](/\ passes <= 2
        /\ (passes = 1 /\ pc \in {"find", "select"}) => ruthless
        /\ passes = 2 => ~ruthless /\ pc # "scan")
  /\ [][pc # "call" => (ruthless' => ruthless)]_vars

\* C3: a call that returned from its second iteration
C3_SecondPassReturned == pc = "returned" /\ passes = 2 /\ ~ruthless

\* C4: given None the call returns None and does nothing else; given a tree
\* it ends with a markup string or with Unparseable, and never returns None.
C4_NoneInNoneOut ==
  /\ source_html = 0 =>
       /\ pc \in {"call", "returned"}
       /\ T = <<>> /\ html = 0 /\ passes = 0
       /\ pc = "returned" => result = ReturnNone
  /\ result.returned <=> pc = "returned"
  /\ (source_html # 0 /\ pc = "returned") => result.returned /\ ~result.none
  /\ (source_html # 0 /\ pc = "raised") => error.type = "Unparseable" /\ ~result.returned

\* C4: a call with None that returned None
C4_NoneReturned == pc = "returned" /\ source_html = 0 /\ result = ReturnNone

\* C5 as stated: after sanitizing, the loop retries exactly when ruthless is
\* still true and the cleaned text length of the sanitized result is below
\* RETRY_LENGTH; otherwise the sanitized markup is returned.
C5_RetryOnTextLength ==
  [][pc = "sanitize" =>
       /\ pc' = "scan" <=> (ruthless /\ text_length(T', article) < RETRY_LENGTH)
       /\ pc' # "scan" => pc' = "returned" /\ result' = ReturnMarkup(cleaned_article')]_vars

\* C5 amended: after sanitizing, the loop retries (with ruthless false)
\* exactly when ruthless is still true and the length of the sanitized markup
\* string, tags included, is below RETRY_LENGTH; otherwise the sanitized
\* markup is returned.
C5_RetryOnMarkupLength ==
  [][pc = "sanitize" =>
       /\ (pc' = "scan" /\ ~ruthless') <=>
            (ruthless /\ MarkupLen(cleaned_article') < RETRY_LENGTH)
       /\ pc' # "scan" => pc' = "returned" /\ result' = ReturnMarkup(cleaned_article')]_vars

\* C5: a first pass that returned markup of RETRY_LENGTH characters or more
\* whose text is shorter than RETRY_LENGTH
C5_LongMarkupShortText ==
  /\ pc = "returned" /\ passes = 1 /\ ruthless
  /\ MarkupLen(result.markup) >= RETRY_LENGTH
  /\ text_length(T, article) < RETRY_LENGTH

\* C6: the html_partial the caller passed decides alone the root of the
\* output that is built around the best candidate: false gives the document
\* html > body > div, true gives the bare div.
C6_CallerDecidesRoot ==
  (pc = "sanitize" /\ candidates # <<>>) =>
    IF given.html_partial
    THEN T[article].tag = "div"
    ELSE /\ T[article].tag = "html"
         /\ Len(T[article].kids) = 1
         /\ T[T[article].kids[1]].tag = "body"

\* no tag of the markup carries an attribute
NoAttributes(m) == \A i \in 1..Len(m) : ~SearchKeys({"=\""}, m[i].s)

\* C7: the markup the sanitizer returns has no attribute on any tag;
\* clean_attributes ends, and applied to markup without attributes it gives
\* that markup back.
C7_NoAttributesLeft ==
  (pc = "returned" /\ ~result.none) =>
    /\ NoAttributes(result.markup)
    /\ NoAttributes(result.markup) => clean_attributes(result.markup) = result.markup

\* no element of the sequence is an unlikely candidate
NoneUnlikely(tree, es) == \A i \in 1..Len(es) : ~IsUnlikely(tree[es[i]])

\* C8: after the preprocessing of the ruthless pass the working root has no
\* descendant whose class and id match the unlikely pattern and not the
\* maybe pattern (html and body apart); no such element is scored or is in
\* the output of that pass; the other pass removes nothing by class or id.
C8_NoUnlikelyLeft ==
  /\ [](/\ (pc = "select" /\ ruthless) =>
             /\ NoneUnlikely(T, Desc(T, html))
             /\ NoneUnlikely(T, [i \in 1..Len(candidates) |-> candidates[i].elem])
        /\ (pc = "sanitize" /\ ruthless) => NoneUnlikely(T, Desc(T, article)))
  /\ [][(pc = "find" /\ ~ruthless) =>
          \A e \in 1..Len(T) :
            (InSeq(e, Desc(T, html)) /\ IsUnlikely(T[e])) => InSeq(e, Desc(T', html))]_vars

\* the headings under node
Headings(tree, node) ==
  SelectSeq(Desc(tree, node), LAMBDA e : InSeq(tree[e].tag, HeaderTags))

\* C9: step 1 of the sanitizer drops every heading under the fragment whose
\* class_weight is negative or whose link density is above 0.33, and no
\* other heading.
C9_HeadingsDropped ==
  pc = "sanitize" =>
    LET T1 == SanitizeHeaders(T, kw, article, HeaderTags)
        hs == Headings(T, article)
    IN  \A i \in 1..Len(hs) :
          InSeq(hs[i], Desc(T1, article)) <=>
            ~(\/ class_weight(kw, T[hs[i]]) < 0
              \/ RLt(Rat(33, 100), get_link_density(T, hs[i])))

\* C9: a sanitizer about to run on a fragment with a heading that step 1
\* keeps and a heading of class weight 0 that it drops for its links
C9_LinkedHeading ==
  /\ pc = "sanitize"
  /\ LET hs == Headings(T, article)
         T1 == SanitizeHeaders(T, kw, article, HeaderTags)
     IN  /\ \E i \in 1..Len(hs) : InSeq(hs[i], Desc(T1, article))
         /\ \E i \in 1..Len(hs) :
              /\ class_weight(kw, T[hs[i]]) = 0
              /\ RLt(Rat(33, 100), get_link_density(T, hs[i]))
              /\ ~InSeq(hs[i], Desc(T1, article))

\* C10: the final scaling is monotonic in link density: with the text and
\* the score before scaling the same, an element of larger link density gets
\* a final score that is no larger.
C10_MoreLinksLowerScore ==
  (/\ probe.stage = "scored"
   /\ probe.a.score = probe.b.score /\ probe.a.text = probe.b.text
   /\ RLe(probe.a.ld, probe.b.ld)) =>
    RLe(probe.b.final, probe.a.final)

\* C11: sibling inclusion is idempotent for fixed candidates and best
\* candidate: a second run of get_article gives an output with the same
\* elements in the same order (and the same markup) as the first run, or
\* fails as the first run did.
C11_AssembleAgainSame ==
  probe.stage = "assembled" => probe.second = probe.first

\* C11: two runs of get_article that appended the best element and a sibling
\* of it
C11_TwoSiblingsTwice ==
  /\ probe.stage = "assembled"
  /\ ~probe.first.exc.raised
  /\ Len(probe.first.top) >= 2
  /\ Len(probe.second.top) >= 2

\* some key is the start of s
StartsWith(keys, s) == \E k \in keys : \E n \in 0..Len(s) : SubSeq(s, 1, n) = k

\* +25 / -25 when some custom positive / negative keyword is the start of s
CustomPoints(s) ==
  (IF StartsWith(kw.pos, s) THEN 25 ELSE 0) - (IF StartsWith(kw.neg, s) THEN 25 ELSE 0)

\* the points of one attribute value: nothing when it is empty
FeaturePoints(s) ==
  IF s = "" THEN 0
  ELSE (IF StartsWith(positiveRe, Lower(s)) THEN 25 ELSE 0)
       - (IF StartsWith(negativeRe, Lower(s)) THEN 25 ELSE 0)
       + CustomPoints(s)

\* C12: class_weight(e) is the sum, over the class and the id taken
\* separately when not empty, of +25 / -25 when the built-in positive /
\* negative pattern matches at the start and +25 / -25 when the custom
\* positive / negative pattern matches at the start, plus +25 / -25 when the
\* custom patterns match at the start of "tag-" + tag; computed twice on the
\* same element it gives the same value.
C12_ClassWeightIsSum ==
  probe.stage = "weighed" =>
    /\ probe.weight = FeaturePoints(Get(probe.el, "class", ""))
                      + FeaturePoints(Get(probe.el, "id", ""))
                      + CustomPoints("tag-" \o probe.el.tag)
    /\ probe.again = probe.weight

\* C12: an element weighed with custom keywords, its class counted by a
\* custom pattern only and its id by a built-in pattern, the negative
\* pattern occurring in the class but not at its start
C12_WeighedBoth ==
  /\ probe.stage = "weighed"
  /\ Get(probe.el, "class", "") = "share-widget"
  /\ Get(probe.el, "id", "") = "Content"
  /\ probe.el.tag = "h2"
  /\ "share" \in kw.pos
  /\ probe.weight = 75

\* the first element of a list, or the other value when the list is empty
FirstOr(list, other) == IF list # <<>> THEN list[1] ELSE other

\* C13: scope narrowing sets the working root to the first element marked
\* articleBody when there is one, otherwise to the first article element
\* when there is one, otherwise to the first body element, and otherwise
\* leaves it the full document.
C13_NarrowsByPriority ==
  pc = "find" =>
    html = FirstOr(XPathArticleBody(T, source_html),
                   FirstOr(XPathTag(T, source_html, "article"),
                           FirstOr(XPathTag(T, source_html, "body"), source_html)))

\* C14: when the first pass has assembled an article and the length check
\* asks for a retry, the elements get_article moved into the output of the
\* first pass are not put back: in the second pass none of them is reachable
\* from the source tree that is narrowed and scored, none is a candidate,
\* and none is in the fragment the second pass sanitizes and returns (the
\* source element being the root of its tree).
C14_MovedElementsStayMoved ==
  /\ []((passes = 2 /\ pc \in {"find", "select"} /\ article # 0) =>
          \A e \in 1..Len(T) :
            InSeq(e, Iter(T, article)) =>
              /\ ~InSeq(e, Iter(T, source_html))
              /\ \A i \in 1..Len(candidates) : pc = "select" => candidates[i].elem # e)
  /\ [][(passes = 2 /\ pc = "select" /\ article # 0 /\ pc' = "sanitize") =>
          \A e \in 1..Len(T) :
            InSeq(e, Iter(T, article)) => ~InSeq(e, Iter(T', article'))]_vars

\* C14: a second pass that returned markup without any text, after a first
\* pass that had moved a paragraph of the source tree, of 25 characters or
\* more, into its output
C14_SecondPassWithoutArticle ==
  /\ pc = "returned" /\ passes = 2
  /\ MarkupTextLen(result.markup) = 0
  /\ \E e \in 1..Len(given.tree) :
       /\ T[e].tag = "p" /\ TLen(T[e].text) >= TEXT_LENGTH_THRESHOLD
       /\ T[e].par # 0
       /\ RootOf(T, e) # source_html
       /\ RootOf(T, e) > Len(given.tree)

\* C15: when scoring gives no best candidate and ruthless is true, ruthless
\* becomes false and the loop restarts from scope narrowing, with no
\* assembly and no sanitization in that iteration; when ruthless is already
\* false, nothing is assembled, the fallback (an element of the working
\* tree) is sanitized and the result is returned in that same iteration.
C15_NoCandidateRetryOrFallback ==
  /\ [][(pc = "select" /\ candidates = <<>>) =>
          /\ T' = T /\ passes' = passes /\ ~ruthless'
          /\ IF ruthless
             THEN pc' = "scan" /\ UNCHANGED <<article, cleaned_article, result, html>>
             ELSE pc' = "sanitize" /\ InSeq(article', Iter(T, html))]_vars
  /\ [][(pc = "sanitize" /\ candidates = <<>>) =>
          /\ ~ruthless /\ passes' = passes
          /\ pc' = "returned"
          /\ cleaned_article' = sanitize(T, kw, article, candidates).cleaned_article
          /\ result' = ReturnMarkup(cleaned_article')]_vars

\* C15: a call that found no candidate in either pass and returned the
\* sanitized working root from its second iteration
C15_FellBack ==
  /\ pc = "returned" /\ passes = 2 /\ candidates = <<>>
  /\ article = html
  /\ Len(T) = Len(given.tree)
  /\ result.markup # <<>>

\* C16 as stated: in the fallback of the second pass the fragment handed to
\* the sanitizer is the body element of the document when it has one, and
\* the whole document when it has none.
C16_FallbackBodyOrDocument ==
  (pc = "sanitize" /\ candidates = <<>>) =>
    article = FirstOr(XPathTag(T, source_html, "body"), source_html)

\* C16 amended: in the fallback of the second pass the fragment handed to
\* the sanitizer is the working root scope narrowing chose: the body element
\* of the document when it has one, otherwise its first article element
\* when it has one, otherwise its first element marked articleBody, and the
\* whole document only when it has none of the three.
C16_FallbackWorkingRoot ==
  (pc = "sanitize" /\ candidates = <<>>) =>
    /\ article = html
    /\ article = FirstOr(XPathTag(T, source_html, "body"),
                         FirstOr(XPathTag(T, source_html, "article"),
                                 FirstOr(XPathArticleBody(T, source_html), source_html)))

\* C16: a fallback that hands an article element, not the whole tree, to the
\* sanitizer
C16_FallbackArticle ==
  /\ pc = "sanitize" /\ candidates = <<>>
  /\ T[article].tag = "article"
  /\ article # source_html
  /\ XPathTag(T, source_html, "body") = <<>>

\* C17: preprocessing renames to p every div of the working root that had
\* no a, blockquote, dl, div, img, ol, p, pre, table or ul below it.
C17_LeafDivsRenamed ==
  [][pc = "find" =>
       \A e \in 1..Len(T) :
         (/\ InSeq(e, FindAll(T, html, "div"))
          /\ InSeq(e, Iter(T', html'))
          /\ \A d \in 1..Len(T) :
               (d # e /\ InSeq(d, Iter(T, e))) => T[d].tag \notin divToPElementsRe)
         => T'[e].tag = "p"]_vars

SameScore(a, b) == ~RLt(a, b) /\ ~RLt(b, a)

\* the score e has before an iteration: its candidate's, or the score
\* score_node gives it when it becomes a candidate
ScoreBefore(e) ==
  IF IsCandidate(candidates, e) THEN candidates[CandIndex(candidates, e)].content_score
  ELSE RInt(score_node(kw, T[e]))

\* what one iteration on the next paragraph adds: delta to the parent and
\* half of it to the grandparent, when the paragraph qualifies
AddsToAncestors(delta) ==
  LET elem == Head(probe.rest)
      parent == T[elem].par
      grand == IF parent = 0 THEN 0 ELSE T[parent].par
  IN  (parent # 0 /\ TLen(clean(TextContent(T, elem))) >= TEXT_LENGTH_THRESHOLD) =>
        /\ IsCandidate(candidates', parent)
        /\ SameScore(candidates'[CandIndex(candidates', parent)].content_score,
                     RAdd(ScoreBefore(parent), delta))
        /\ grand # 0 =>
             /\ IsCandidate(candidates', grand)
             /\ SameScore(candidates'[CandIndex(candidates', grand)].content_score,
                          RAdd(ScoreBefore(grand), RMul(delta, Rat(1, 2))))

\* C18 as stated: a p, pre or td with a parent and at least 25 characters of
\* cleaned text adds 1 + (number of commas) + min(length / 100, 3) to the
\* score of its parent and half of that to the score of its grandparent.
C18_DeltaCountsCommas ==
  [][(pc = "walk" /\ probe.rest # <<>>) =>
       LET inner_text == clean(TextContent(T, Head(probe.rest)))
       IN  AddsToAncestors(RAdd(RInt(1 + CountChar(inner_text, ",")),
                                RMin(Rat(TLen(inner_text), 100), RInt(3))))]_vars

\* C18 amended: a p, pre or td with a parent and at least 25 characters of
\* cleaned text adds 2 + (number of commas) + min(length / 100, 3) to the
\* score of its parent (1, plus the number of pieces the commas split the
\* text into) and exactly half of that to the score of its grandparent.
C18_DeltaCountsPieces ==
  [][(pc = "walk" /\ probe.rest # <<>>) =>
       LET inner_text == clean(TextContent(T, Head(probe.rest)))
       IN  AddsToAncestors(RAdd(RInt(2 + CountChar(inner_text, ",")),
                                RMin(Rat(TLen(inner_text), 100), RInt(3))))]_vars

\* C18: a paragraph with a comma has just been scored into a parent and a
\* grandparent
C18_CommaParagraphScored ==
  /\ pc = "walk" /\ probe.stage = "walk" /\ probe.elem # 0
  /\ CountChar(clean(TextContent(T, probe.elem)), ",") = 1
  /\ T[probe.elem].par # 0
  /\ T[T[probe.elem].par].par # 0
  /\ IsCandidate(candidates, T[probe.elem].par)
  /\ IsCandidate(candidates, T[T[probe.elem].par].par)

CandidateElems(cands) == [i \in 1..Len(cands) |-> cands[i].elem]

\* the position of e in the document order of the working root
DocPos(e) == IndexOf(Iter(T, html), e)

TagRank(tag) == IF tag = "p" THEN 1 ELSE IF tag = "pre" THEN 2 ELSE 3

\* C19 as stated: score_paragraphs walks the p, pre and td elements of the
\* working root in document order, and the candidates are in the order in
\* which a walk in document order first meets a qualifying paragraph below
\* each of them.
C19_WalkInDocumentOrder ==
  LET walk == SelectSeq(Desc(T, html), LAMBDA k : T[k].tag \in {"p", "pre", "td"})
  IN  /\ (pc = "walk" /\ probe.elem = 0) => probe.rest = walk
      /\ pc = "select" =>
           CandidateElems(candidates) = CandidateElems(ScoreParagraphs(<<>>, T, kw, walk))

\* C19 amended: score_paragraphs walks all p elements of the working root
\* in document order, then all pre elements, then all td elements; each
\* iteration on a qualifying paragraph appends its parent and then its
\* grandparent to the candidates when they are not yet there, nothing else
\* changes the order of the candidates, and of candidates of equal score
\* the earlier one in this order is selected.
C19_WalkTagByTag ==
  /\ [](/\ (pc = "walk" /\ probe.elem = 0) =>
              /\ \A k \in 1..Len(T) :
                   InSeq(k, probe.rest) <=>
                     (InSeq(k, Desc(T, html)) /\ T[k].tag \in {"p", "pre", "td"})
              /\ \A i, j \in 1..Len(probe.rest) :
                   i < j =>
                     \/ TagRank(T[probe.rest[i]].tag) < TagRank(T[probe.rest[j]].tag)
                     \/ /\ T[probe.rest[i]].tag = T[probe.rest[j]].tag
                        /\ DocPos(probe.rest[i]) < DocPos(probe.rest[j])
        /\ (pc = "done" /\ probe.best # 0) =>
              \A j \in 1..(probe.best - 1) :
                RLt(candidates[j].content_score, candidates[probe.best].content_score))
  /\ [][pc = "walk" =>
          IF probe.rest = <<>>
          THEN CandidateElems(candidates') = CandidateElems(candidates)
          ELSE LET elem == Head(probe.rest)
                   parent == T[elem].par
                   grand == IF parent = 0 THEN 0 ELSE T[parent].par
                   counted == parent # 0 /\ TLen(clean(TextContent(T, elem))) >= TEXT_LENGTH_THRESHOLD
               IN  CandidateElems(candidates') =
                     CandidateElems(candidates)
                     \o (IF counted /\ ~IsCandidate(candidates, parent) THEN <<parent>> ELSE <<>>)
                     \o (IF counted /\ grand # 0 /\ ~IsCandidate(candidates, grand)
                         THEN <<grand>> ELSE <<>>)]_vars

\* C19: a pre or td stands before a p in the document, both were counted,
\* and the parent of the p became a candidate before the parent of the pre
\* or td
C19_LaterParagraphSeenFirst ==
  /\ pc = "select"
  /\ \E a, b \in 1..Len(T) :
       /\ InSeq(a, Desc(T, html)) /\ InSeq(b, Desc(T, html))
       /\ T[a].tag \in {"pre", "td"} /\ T[b].tag = "p"
       /\ DocPos(a) < DocPos(b)
       /\ IsCandidate(candidates, T[a].par) /\ IsCandidate(candidates, T[b].par)
       /\ CandIndex(candidates, T[b].par) < CandIndex(candidates, T[a].par)

\* C20: select_best_candidate returns None for no candidates; otherwise it
\* returns a candidate whose score no other candidate exceeds, and every
\* candidate inserted before it has a strictly smaller score.
C20_FirstOfBestSelected ==
  (pc = "done" /\ probe.stage = "selected") =>
    IF candidates = <<>> THEN probe.best = 0
    ELSE /\ probe.best \in 1..Len(candidates)
         /\ \A j \in 1..Len(candidates) :
              ~RLt(candidates[probe.best].content_score, candidates[j].content_score)
         /\ \A j \in 1..Len(candidates) :
              SameScore(candidates[j].content_score, candidates[probe.best].content_score)
                => probe.best <= j

\* C20: the selected candidate shares the maximal score with a candidate
\* inserted after it
C20_TieSelected ==
  /\ pc = "done" /\ probe.stage = "selected" /\ probe.best # 0
  /\ \E j \in (probe.best + 1)..Len(candidates) :
       SameScore(candidates[j].content_score, candidates[probe.best].content_score)

\* the score s multiplied by (1 - link density of e), then by (1 + len / 500)
ScaledBy(s, e, len) ==
  RMul(RMul(s, RSub(RInt(1),
                    Rat(SumTextLength(T, FindAll(T, e, "a")), Max2(text_length(T, e), 1)))),
       RAdd(RInt(1), Rat(len, 500)))

\* C21 as stated: after the walk every candidate's score is multiplied once
\* by (1 - link density) and by (1 + length / 500), the length being that of
\* the cleaned text of the candidate element.
C21_ScaledByCleanedLength ==
  [][(pc = "walk" /\ probe.rest = <<>>) =>
       /\ Len(candidates') = Len(candidates)
       /\ \A i \in 1..Len(candidates) :
            /\ candidates'[i].elem = candidates[i].elem
            /\ SameScore(candidates'[i].content_score,
                         ScaledBy(candidates[i].content_score, candidates[i].elem,
                                  text_length(T, candidates[i].elem)))]_vars

\* C21 amended: after the walk every candidate's score is multiplied once
\* by (1 - link density) and by (1 + length / 500), the length being that of
\* the raw text content of the candidate element, white space included; the
\* link density is the cleaned text length of the element's anchors over
\* max(cleaned text length of the element, 1).  No other step between the
\* walk and the selection changes a score.
C21_ScaledByRawLength ==
  [][/\ (pc = "walk" /\ probe.rest = <<>>) =>
          /\ Len(candidates') = Len(candidates)
          /\ \A i \in 1..Len(candidates) :
               /\ candidates'[i].elem = candidates[i].elem
               /\ SameScore(candidates'[i].content_score,
                            ScaledBy(candidates[i].content_score, candidates[i].elem,
                                     TLen(TextContent(T, candidates[i].elem))))
     /\ pc = "select" => candidates' = candidates]_vars

\* C21: a scaled candidate whose raw text is longer than its cleaned text
C21_SpacedCandidateScaled ==
  /\ pc = "select" /\ probe.stage = "walk"
  /\ \E i \in 1..Len(candidates) :
       /\ TLen(TextContent(T, candidates[i].elem)) > text_length(T, candidates[i].elem)
       /\ RLt(RInt(0), candidates[i].content_score)

BestElem == candidates[select_best_candidate(candidates)].elem

\* the text t has one of the marks followed by one of the blanks, or at the
\* end of the string ($ also matches before one newline that ends it)
EndsSentence(t0, marks, blanks) ==
  LET t == NonEmptyRuns(t0)
  IN  \E i \in 1..Len(t) :
        /\ t[i].c \in marks
        /\ \/ i = Len(t)
           \/ t[i + 1].c \in blanks
           \/ i + 1 = Len(t) /\ t[i + 1].c = "\n" /\ t[i + 1].n = 1

\* the sibling s is a candidate whose score reaches max(10, 0.2 * best score)
ScoredEnough(s) ==
  /\ IsCandidate(candidates, s)
  /\ RLe(RMax(RInt(10), RMul(candidates[select_best_candidate(candidates)].content_score,
                             Rat(2, 10))),
         candidates[CandIndex(candidates, s)].content_score)

\* a p with more than 80 characters of the given length and link density
\* below 0.25, or with at most 80, link density 0 and a sentence end
ParagraphEnough(s, length, marks, blanks) ==
  /\ T[s].tag = "p"
  /\ \/ length > 80 /\ RLt(get_link_density(T, s), Rat(1, 4))
     \/ /\ length <= 80
        /\ ~RLt(RInt(0), get_link_density(T, s))
        /\ EndsSentence(T[s].text, marks, blanks)

\* C22 as stated: a sibling other than the best element is included iff it
\* is a candidate that reaches the threshold, or a p whose text length is
\* over 80 with link density below 0.25, or at most 80 with link density 0
\* and a period, exclamation mark or question mark followed by white space
\* or the end in its direct text.
C22_SiblingIncludedIff ==
  [][(pc = "select" /\ candidates # <<>> /\ T[BestElem].par # 0 /\ pc' = "sanitize") =>
       \A s \in 1..Len(T) :
         (s # BestElem /\ InSeq(s, T[T[BestElem].par].kids)) =>
           (InSeq(s, Iter(T', article')) <=>
              \/ ScoredEnough(s)
              \/ ParagraphEnough(s, text_length(T, s), {".", "!", "?"}, {" ", "\n"}))]_vars

\* C22 amended: a sibling other than the best element is included iff it
\* is a candidate that reaches max(10, 0.2 * best score), or a p whose
\* direct text (the text before its first child, not cleaned) is longer
\* than 80 with link density below 0.25, or at most 80 long with link
\* density 0 and a period followed by a space or by the end of the string.
C22_SiblingIncludedByDirectText ==
  [][(pc = "select" /\ candidates # <<>> /\ T[BestElem].par # 0 /\ pc' = "sanitize") =>
       \A s \in 1..Len(T) :
         (s # BestElem /\ InSeq(s, T[T[BestElem].par].kids)) =>
           (InSeq(s, Iter(T', article')) <=>
              \/ ScoredEnough(s)
              \/ ParagraphEnough(s, TLen(T[s].text), {"."}, {" "}))]_vars

\* C22: an article that took the sibling ending in a period and left the
\* sibling ending in an exclamation mark
C22_PeriodInBangOut ==
  /\ pc = "sanitize"
  /\ \E s, b \in 1..Len(T) :
       /\ T[s].tag = "p" /\ T[s].text = <<R("x", 30), R(".", 1)>>
       /\ InSeq(s, Iter(T, article))
       /\ T[b].tag = "p" /\ T[b].text = <<R("x", 30), R("!", 1)>>
       /\ ~InSeq(b, Iter(T, article))
       /\ T[b].par # 0

\* the element get_article appends to: the output itself for a fragment,
\* the div below html > body otherwise
Container(tree, output) ==
  IF tree[output].tag = "div" THEN output ELSE tree[tree[output].kids[1]].kids[1]

\* C23: when get_article returns, the best element is in the output
\* container; the container holds exactly the included children of the best
\* element's former parent, in their original order; each of them is the
\* same element as before with the container as its parent, and it is a
\* child of no other element, its former parent included.
C23_IncludedAreMoved ==
  [][(pc = "select" /\ candidates # <<>> /\ pc' = "sanitize") =>
       LET parent == T[BestElem].par
           container == Container(T', article')
           kept == T'[container].kids
       IN  /\ parent # 0
           /\ container \notin 1..Len(T)
           /\ InSeq(BestElem, kept)
           /\ kept = SelectSeq(T[parent].kids, LAMBDA s : InSeq(s, kept))
           /\ T'[parent].kids = SelectSeq(T[parent].kids, LAMBDA s : ~InSeq(s, kept))
           /\ \A i \in 1..Len(kept) :
                /\ T'[kept[i]] = [T[kept[i]] EXCEPT !.par = container]
                /\ \A e \in 1..Len(T') : InSeq(kept[i], T'[e].kids) => e = container
                /\ \A j \in 1..Len(kept) : kept[j] = kept[i] => j = i]_vars

\* C23: an article made of the best element between an included sibling
\* before it and an included sibling after it
C23_ThreeMoved ==
  /\ pc = "sanitize" /\ candidates # <<>>
  /\ LET kept == T[Container(T, article)].kids
     IN  /\ Len(kept) = 3
         /\ kept[2] = BestElem
         /\ given.tree[kept[1]].par = given.tree[kept[2]].par
         /\ given.tree[kept[3]].par = given.tree[kept[2]].par

\* the position of e in the fragment when sanitize started
PrunePos(e) == IndexOf(Iter(probe.start, article), e)

PruneRank(tag) == IF tag = "table" THEN 1 ELSE IF tag = "ul" THEN 2 ELSE 3

\* C24 as stated: step 3 visits the table, ul and div elements of the
\* fragment in reverse document order, each of them before any table, ul or
\* div that is its ancestor.
C24_ReverseDocumentOrder ==
  pc = "clean" =>
    \A i, j \in 1..Len(probe.visited) :
      i < j =>
        /\ PrunePos(probe.visited[i]) > PrunePos(probe.visited[j])
        /\ ~InSeq(probe.visited[j], Desc(probe.start, probe.visited[i]))

\* C24 amended: step 3 visits all table elements of the fragment in reverse
\* document order, then all ul elements, then all div elements, so an
\* element is visited before its ancestors of the same tag name but after
\* its ancestors whose tag name comes earlier in (table, ul, div); the list
\* of a tag name holds every such element of the fragment at the moment the
\* loop reaches the name, and no element is visited after it has been
\* detached from the fragment.
C24_ReverseOrderTagByTag ==
  /\ [](pc = "clean" =>
          \A i, j \in 1..Len(probe.visited) :
            i < j =>
              \/ PruneRank(T[probe.visited[i]].tag) < PruneRank(T[probe.visited[j]].tag)
              \/ /\ T[probe.visited[i]].tag = T[probe.visited[j]].tag
                 /\ PrunePos(probe.visited[i]) > PrunePos(probe.visited[j]))
  /\ [][pc = "clean" =>
          /\ probe.rest # <<>> => InSeq(Head(probe.rest), Desc(T, article))
          /\ (probe.rest = <<>> /\ probe.names # <<>>) =>
               \A e \in 1..Len(T) :
                 InSeq(e, probe'.rest) <=>
                   (InSeq(e, Desc(T, article)) /\ T[e].tag = Head(probe.names))]_vars

\* C24: a ul was visited before a div below it, and both were in the
\* fragment when the div was visited
C24_AncestorVisitedFirst ==
  /\ pc = "clean"
  /\ \E i, j \in 1..Len(probe.visited) :
       /\ i < j
       /\ T[probe.visited[i]].tag = "ul" /\ T[probe.visited[j]].tag = "div"
       /\ InSeq(probe.visited[j], Desc(probe.start, probe.visited[i]))
       /\ InSeq(probe.visited[i], Desc(T, article))

\* the cleaned text length of the nearest sibling of el on one side whose
\* text is not empty; 0 when there is none
SideLength(el, preceding) ==
  LET kids == T[T[el].par].kids
      i == IndexOf(kids, el)
      inked == {k \in 1..Len(kids) :
                  (IF preceding THEN k < i ELSE k > i) /\ text_length(T, kids[k]) # 0}
      nearest == CHOOSE k \in inked :
                   \A m \in inked : IF preceding THEN m <= k ELSE m >= k
  IN  IF inked = {} THEN 0 ELSE text_length(T, kids[nearest])

\* the sibling override fires for el
OverrideFires(el) == SideLength(el, TRUE) + SideLength(el, FALSE) > 1000

\* the score of el as step 3 reads it: 0 when el is no candidate
PruneScore(el) ==
  IF IsCandidate(candidates, el) THEN candidates[CandIndex(candidates, el)].content_score
  ELSE RInt(0)

\* el reaches the secondary check: it is not allowed, its weight plus score
\* is not negative and its text has fewer than 10 commas
ReachesCheck(el) ==
  /\ el \notin probe.allowed
  /\ ~RLt(RAdd(RInt(class_weight(kw, T[el])), PruneScore(el)), RInt(0))
  /\ CountChar(TextContent(T, el), ",") < 10

\* one visit of step 3: an element for which the override fires stays, and
\* its table, ul and div descendants join the allowed set; an allowed
\* element is skipped; the allowed set never shrinks
OverrideProtects ==
  (pc = "clean" /\ probe.rest # <<>>) =>
    LET el == Head(probe.rest)
    IN  /\ probe.allowed \subseteq probe'.allowed
        /\ el \in probe.allowed => (T' = T /\ probe'.allowed = probe.allowed)
        /\ (ReachesCheck(el) /\ OverrideFires(el)) =>
             /\ T' = T
             /\ probe'.allowed =
                  probe.allowed \cup {d \in 1..Len(T) : InSeq(d, Desc(T, el))
                                                         /\ T[d].tag \in {"table", "ul", "div"}}
        /\ (ReachesCheck(el) /\ ~OverrideFires(el)) => probe'.allowed = probe.allowed

\* C25 as stated: when the override fires for an element it is not removed
\* and its table, ul and div descendants are added to the allowed set; an
\* element of the allowed set is never removed from the fragment during
\* the rest of the sanitization.
C25_AllowedStayInFragment ==
  /\ [][OverrideProtects]_vars
  /\ [](pc = "clean" => \A a \in probe.allowed : InSeq(a, Desc(T, article)))

\* C25 amended: when the override fires for an element it is not removed
\* and its table, ul and div descendants are added to the allowed set; an
\* element of the allowed set is never dropped by its own visit (the visit
\* skips it, whatever its weight), but it leaves the fragment when an
\* ancestor of it is dropped later.
C25_AllowedAreSkipped ==
  /\ [][OverrideProtects]_vars
  /\ [](pc = "clean" =>
          \A a \in probe.allowed :
            /\ T[a].par # 0
            /\ ~InSeq(a, Desc(T, article)) =>
                 \E i \in 1..Len(probe.visited) :
                   /\ T[probe.visited[i]].par = 0
                   /\ InSeq(a, Desc(T, probe.visited[i])))

\* C25: an allowed div of negative weight was visited and is still in the
\* fragment
C25_NegativeDivKept ==
  /\ pc = "clean"
  /\ \E a \in probe.allowed :
       /\ InSeq(a, probe.visited)
       /\ InSeq(a, Desc(T, article))
       /\ class_weight(kw, T[a]) < 0

\* the number of elements with the tag below el
CountBelow(el, tag) == Cardinality({d \in 1..Len(T) : InSeq(d, Desc(T, el)) /\ T[d].tag = tag})

\* the removal conditions of the secondary check, as the claim lists them
RemovalListed(el) ==
  LET p == CountBelow(el, "p")
      img == CountBelow(el, "img")
      li == CountBelow(el, "li") - 100
      embed == CountBelow(el, "embed")
      input == CountBelow(el, "input")
               - Cardinality({d \in 1..Len(T) : /\ InSeq(d, Desc(T, el))
                                                /\ T[d].tag = "input"
                                                /\ Get(T[d], "type", "") = "hidden"})
      weight == class_weight(kw, T[el])
      density == get_link_density(T, el)
      length == text_length(T, el)
  IN  \/ img > p /\ p > 0
      \/ 3 * input > p
      \/ weight < 25 /\ RLt(Rat(2, 10), density)
      \/ weight >= 25 /\ RLt(Rat(5, 10), density)
      \/ li > p /\ T[el].tag \notin {"ul", "ol"}
      \/ length < 25 /\ (img = 0 \/ img > 2)
      \/ embed = 1 /\ length < 75
      \/ embed > 1

\* C26: a table, ul or div visited in step 3 and not in the allowed set is
\* dropped with its subtree exactly when its class weight plus candidate
\* score is negative, or when that sum is not negative, its text has fewer
\* than 10 commas, the sibling override does not fire and one of the listed
\* removal conditions holds; otherwise the visit changes no element.
C26_DroppedExactlyWhen ==
  [][(pc = "clean" /\ probe.rest # <<>> /\ Head(probe.rest) \notin probe.allowed) =>
       LET el == Head(probe.rest)
           negative == RLt(RAdd(RInt(class_weight(kw, T[el])), PruneScore(el)), RInt(0))
       IN  IF negative \/ (ReachesCheck(el) /\ ~OverrideFires(el) /\ RemovalListed(el))
           THEN /\ T'[el].par = 0
                /\ ~InSeq(el, Desc(T', article))
                /\ \A d \in 1..Len(T) :
                     (d # el /\ InSeq(d, Desc(T, el))) => T'[d] = T[d]
                /\ \A d \in 1..Len(T) :
                     InSeq(d, Desc(T', article)) <=>
                       (InSeq(d, Desc(T, article)) /\ ~InSeq(d, Iter(T, el)))
           ELSE T' = T]_vars

\* C26: a div with an embed and a short paragraph has been dropped by the
\* secondary check
C26_EmbedDivDropped ==
  /\ pc = "clean"
  /\ \E i \in 1..Len(probe.visited) :
       LET el == probe.visited[i]
       IN  /\ T[el].par = 0
           /\ Len(FindAll(T, el, "embed")) = 1
           /\ class_weight(kw, T[el]) = 0
           /\ ~RLt(PruneScore(el), RInt(0))

\* C27: after the pass no div below the working root has non-blank direct
\* text, a child with non-blank tail text or a br child, and a second run of
\* the pass leaves the tree as it is.
C27_SecondPassChangesNothing ==
  (pc = "done" /\ probe.stage = "normalized") =>
    /\ probe.again = T
    /\ \A d \in 1..Len(T) :
         InSeq(d, FindAll(T, html, "div")) =>
           /\ ~HasInk(T[d].text)
           /\ \A i \in 1..Len(T[d].kids) :
                ~HasInk(T[T[d].kids[i]].tail) /\ T[T[d].kids[i]].tag # "br"

\* C27: the pass has run on a div that had direct text, a br child and a
\* child with tail text
C27_LooseDivNormalized ==
  /\ pc = "done" /\ probe.stage = "normalized"
  /\ \E d \in 1..Len(given.tree) :
       /\ given.tree[d].tag = "div"
       /\ HasInk(given.tree[d].text)
       /\ \E i \in 1..Len(given.tree[d].kids) : given.tree[given.tree[d].kids[i]].tag = "br"
       /\ \E i \in 1..Len(given.tree[d].kids) : HasInk(given.tree[given.tree[d].kids[i]].tail)
       /\ InSeq(d, FindAll(T, html, "div"))
       /\ Len(T) > Len(given.tree) + 1

\* the best candidate of the pass is an element without a parent
ParentlessBest ==
  /\ select_best_candidate(candidates) # 0
  /\ T[candidates[select_best_candidate(candidates)].elem].par = 0

\* C28: when the best candidate selected in a pass is the root of its tree,
\* the selection step ends in the handler with the AttributeError of
\* None.getchildren(), nothing is returned, and the call raises Unparseable.
C28_ParentlessBestIsUnparseable ==
  /\ [][(pc = "select" /\ ParentlessBest) =>
          /\ pc' = "except"
          /\ exc' = NoParentError
          /\ result' = NoResult
          /\ article' = article]_vars
  /\ [](ParentlessBest => pc # "returned" /\ result = NoResult)
  /\ []((pc = "raised" /\ ParentlessBest) => error = Exc("Unparseable", NoParentError.msg))

\* C28: a call on a single parentless element that directly contains the
\* qualifying paragraphs has raised
C28_RootCandidateRaised ==
  /\ pc = "raised" /\ ParentlessBest
  /\ given.tree[1].par = 0
  /\ candidates[select_best_candidate(candidates)].elem = 1
  /\ \E i \in 1..Len(given.tree[1].kids) :
       /\ given.tree[given.tree[1].kids[i]].tag = "p"
       /\ text_length(given.tree, given.tree[1].kids[i]) >= TEXT_LENGTH_THRESHOLD

\* C29: every element that has a candidate record in a pass is the working
\* root or one of its descendants.
C29_CandidatesInsideWorkingRoot ==
  pc = "select" =>
    \A i \in 1..Len(candidates) : InSeq(candidates[i].elem, Iter(T, html))

\* C30: when a perform_url call has ended with error_msg set, title,
\* image_url, language, description and clean_html are None, and no result
\* field, canonical_url included, holds a value computed in an earlier call.
C30_FailedCallLeavesNoResult ==
  (probe.stage = "wanish" /\ probe.at = "idle" /\ probe.calls > 0
     /\ probe.error_msg # None) =>
    /\ probe.title = None
    /\ probe.image_url = None
    /\ probe.language = None
    /\ probe.description = None
    /\ probe.clean_html = None
    /\ \A v \in {probe.canonical_url, probe.title, probe.image_url, probe.language,
                 probe.description, probe.clean_html} :
         v = None \/ v.of = probe.calls

=============================================================================
